---- MODULE Spec2Model ----
(***************************************************************************)
(* A model of the MediaCrawler AI post-processing core:                    *)
(*   - cache/local_cache.py      ExpiringLocalCache (TTL cache + sweep)    *)
(*   - ai_agent/llm_agent.py     LLMAgent.judge_relevance and its fallback *)
(*   - data_postprocessor.py     DataPostProcessor pipeline                *)
(*   - ai_crawler.py             AICrawlerManager crawl_* config overrides *)
(* Strings are sequences of characters (CnComma and CnStop stand for the   *)
(* two non-ASCII ones), Python None is the value None, and Python dicts    *)
(* that are iterated are kept in insertion order.                          *)
(***************************************************************************)
EXTENDS Integers, Sequences, FiniteSets, TLC

VARIABLES
    \* ---- ExpiringLocalCache (cache/local_cache.py)
    now,              \* time.time(), in whole seconds
    cache_container,  \* self._cache_container, in dict insertion order
    cron_task,        \* self._cron_task: "none" | "sleeping" | "failed" | "cancelled"
    next_wake,        \* the instant the sweep task's asyncio.sleep ends
    cache_ret,        \* the last call, when it ran and what it returned
    last_set          \* history: per key, the most recent set (or NeverSet)

VARIABLES
    \* ---- LLMAgent.judge_relevance called on its own (ai_agent/llm_agent.py)
    j_in,             \* the arguments, the credential and the remote outcome
    j_out             \* what the call did: pending, returned a verdict, or raised

VARIABLES
    \* ---- LLMAgent._simple_relevance_check called on its own
    fb_in,            \* content_text and event_description
    fb_out            \* pending, or the verdict returned

VARIABLES
    \* ---- LLMAgent.extract_keywords called on its own
    ex_in,            \* the arguments, the credential and the remote outcome
    ex_out            \* pending, or what the call returned and whether it called out

VARIABLES
    \* ---- DataPostProcessor (data_postprocessor.py), one run of process()
    pc,               \* the stage process() is at
    files,            \* data/<platform>/json/search_contents_*.json, in glob order
    objs,             \* the item dicts json.load built, per platform, in load order
    all_data,         \* all_data[platform]: the items (indices into objs) Load returned
    cached_data,      \* self._cached_data[platform]: str(id) -> index into objs
    relevant_ids,     \* self.relevant_ids[platform]
    cl,               \* judge_relevance's loop: platform, position, local lists, log
    llm_api_key,      \* whether self.llm_agent.api_key is set
    filter_on,        \* config.ENABLE_RELEVANCE_FILTER
    comment_files,    \* the files data/<platform>/json/*comments_*.json
    latest,           \* data/relevant/relevant_data_latest.json
    snapshots,        \* data/relevant/relevant_data_<timestamp>.json, as written
    persist_runs      \* history: per save_relevant_data call, memory before, output, file after

VARIABLES
    \* ---- the shared module config and the callers that override it
    config,           \* PLATFORM, KEYWORDS, COOKIES, CRAWLER_TYPE, HEADLESS, ...
    config_list,      \* the list object config.WEIBO_SPECIFIED_ID_LIST is at import
    br,               \* per caller: where it is, what it saved, config before it
    keywords,         \* AICrawlerManager.keywords
    gather,           \* crawl_all_platforms: where it is and what it returned
    relevant_note_ids \* AICrawlerManager.relevant_note_ids

VARIABLES
    \* ---- main() of data_postprocessor.py and the event loop it runs on
    main,             \* where main is, how process() ended, what main let out
    tasks             \* per task slot of the loop: absent, or its coroutine and state

cacheVars == <<now, cache_container, cron_task, next_wake, cache_ret, last_set>>
judgeVars == <<j_in, j_out>>
fallbackVars == <<fb_in, fb_out>>
extractVars == <<ex_in, ex_out>>
pipeVars == <<pc, files, objs, all_data, cached_data, relevant_ids, cl, llm_api_key,
              filter_on, comment_files, latest, snapshots, persist_runs>>
crawlVars == <<config, config_list, br, keywords, gather, relevant_note_ids>>
mainVars == <<main, tasks>>

vars == <<cacheVars, judgeVars, fallbackVars, extractVars, pipeVars, crawlVars, mainVars>>

\* what an operation of one component leaves alone: the other components
notCache == <<judgeVars, fallbackVars, extractVars, pipeVars, crawlVars, mainVars>>
notJudge == <<cacheVars, fallbackVars, extractVars, pipeVars, crawlVars, mainVars>>
notFallback == <<cacheVars, judgeVars, extractVars, pipeVars, crawlVars, mainVars>>
notExtract == <<cacheVars, judgeVars, fallbackVars, pipeVars, crawlVars, mainVars>>
notPipe == <<cacheVars, judgeVars, fallbackVars, extractVars, crawlVars, mainVars>>
notPipeCrawl == <<cacheVars, judgeVars, fallbackVars, extractVars, mainVars>>
notMain == <<cacheVars, judgeVars, fallbackVars, extractVars, pipeVars, crawlVars>>
\* the pipeline's own state that none of its stages after Load writes
pipeInputs == <<files, llm_api_key, filter_on, comment_files>>
\* the pipeline's state a crawl_* call of AICrawlerManager leaves alone
pipeData == <<pc, objs, all_data, cached_data, relevant_ids, cl, latest, snapshots, persist_runs>>

None == "None"

Range(s) == {s[i] : i \in DOMAIN s}

(***************************************************************************)
(* ExpiringLocalCache                                                      *)
(***************************************************************************)
MaxTime == 4
MaxTtl == 2
CronInterval == 2

CacheKeys == {<<"a">>, <<"a", "b">>}
CacheValues == {"v", None}
Ttls == 0..MaxTtl
Patterns == {<<"*">>, <<"b">>, <<"a", "*">>}

\* index of key in the container, 0 when the key is not in it
IndexOf(c, key) ==
    IF \E i \in DOMAIN c : c[i].key = key
    THEN CHOOSE i \in DOMAIN c : c[i].key = key
    ELSE 0

\* del d[key]
DictDel(c, key) == SelectSeq(c, LAMBDA e : e.key # key)

\* a variant of DictPut that keeps the later of the old and the new expiry, to test the properties against
DictPutMut(c, key, value, expire) ==
    LET i == IndexOf(c, key)
    IN  IF i = 0 THEN Append(c, [key |-> key, value |-> value, expire |-> expire])
        ELSE [c EXCEPT ![i] = [key |-> key, value |-> value,
                               expire |-> IF c[i].expire > expire THEN c[i].expire
                                          ELSE expire]]

\* a variant of DictPut that leaves the entry of an existing key as it is, to test the properties against
DictPutKeepMut(c, key, value, expire) ==
    IF IndexOf(c, key) = 0
    THEN Append(c, [key |-> key, value |-> value, expire |-> expire])
    ELSE c

\* d[key] = (value, expire): an existing key keeps its place, a new one is appended
DictPut(c, key, value, expire) ==
    LET i == IndexOf(c, key)
        e == [key |-> key, value |-> value, expire |-> expire]
    IN  IF i = 0 THEN Append(c, e) ELSE [c EXCEPT ![i] = e]

\* list(d.keys())
DictKeys(c) == [i \in DOMAIN c |-> c[i].key]

\* d.get(key, (None, 0))
DictGet(c, key) ==
    LET i == IndexOf(c, key)
    IN  IF i = 0 THEN [key |-> key, value |-> None, expire |-> 0] ELSE c[i]

\* a variant of Expired with the boundary instant counted as expired, to test the properties against
ExpiredMut(expire, t) == expire <= t

\* the comparison of get and _clear: expire_time < time.time()
Expired(expire, t) == expire < t

\* get(key): the returned value and the container afterwards
GetResult(c, key, t) ==
    LET e == DictGet(c, key)
    IN  IF e.value = None THEN [ret |-> None, container |-> c]
        ELSE IF Expired(e.expire, t)
             THEN [ret |-> None, container |-> DictDel(c, key)]
             ELSE [ret |-> e.value, container |-> c]

\* pattern.replace('*', '')
RemoveStar(p) == SelectSeq(p, LAMBDA ch : ch # "*")

\* a variant of IsSubstr that looks at the start of the key only, to test the properties against
IsSubstrMut(p, k) == Len(p) <= Len(k) /\ SubSeq(k, 1, Len(p)) = p

\* pattern in key
IsSubstr(p, k) ==
    \E i \in 0..(Len(k) - Len(p)) : SubSeq(k, i + 1, i + Len(p)) = p

\* keys(pattern)
KeysResult(c, pattern) ==
    IF pattern = <<"*">> THEN DictKeys(c)
    ELSE LET p == RemoveStar(pattern)
         IN  SelectSeq(DictKeys(c), LAMBDA k : IsSubstr(p, k))

\* _clear(): the loop deletes from the dict it iterates. The first deletion makes
\* the iterator's next step raise RuntimeError, so one pass deletes the first
\* expired entry (in insertion order) and then raises.
ClearResult(c, t) ==
    LET hit == {i \in DOMAIN c : Expired(c[i].expire, t)}
    IN  IF hit = {} THEN [raised |-> FALSE, container |-> c]
        ELSE LET i == CHOOSE j \in hit : \A h \in hit : j <= h
             IN  [raised |-> TRUE, container |-> DictDel(c, c[i].key)]

\* history value of a key no set was made for
NeverSet == [isset |-> FALSE, value |-> None, expire |-> 0]

\* __init__ / _schedule_clear: the sweep task exists only when the constructor
\* runs inside a running event loop; its first pass runs at once.
CacheInit ==
    /\ now = 0
    /\ cache_container = <<>>
    /\ cron_task \in {"none", "sleeping"}
    /\ next_wake = 0
    /\ cache_ret = [op |-> "none", key |-> <<>>, ret |-> None, at |-> 0,
                    over |-> FALSE]
    /\ last_set = [k \in CacheKeys |-> NeverSet]

\* the cache of a run that uses none
CacheIdle ==
    /\ now = 0
    /\ cache_container = <<>>
    /\ cron_task = "none"
    /\ next_wake = 0
    /\ cache_ret = [op |-> "none", key |-> <<>>, ret |-> None, at |-> 0,
                    over |-> FALSE]
    /\ last_set = [k \in CacheKeys |-> NeverSet]

\* history: the set replaces an entry that holds another value and expires later
Overwritten(c, key, value, expire) ==
    /\ IndexOf(c, key) # 0
    /\ c[IndexOf(c, key)].value # value
    /\ c[IndexOf(c, key)].expire > expire

CacheSet(key, value, ttl) ==
    /\ cache_container' = DictPut(cache_container, key, value, now + ttl)
    /\ last_set' = [last_set EXCEPT ![key] =
                       [isset |-> TRUE, value |-> value, expire |-> now + ttl]]
    /\ cache_ret' = [op |-> "set", key |-> key, ret |-> None,
                     over |-> Overwritten(cache_container, key, value, now + ttl)]
    /\ UNCHANGED <<now, cron_task, next_wake, notCache>>

CacheGet(key) ==
    LET r == GetResult(cache_container, key, now)
    IN  /\ cache_container' = r.container
        /\ cache_ret' = [op |-> "get", key |-> key, ret |-> r.ret, at |-> now,
                         over |-> FALSE]
        /\ UNCHANGED <<now, cron_task, next_wake, last_set, notCache>>

CacheKeysCall(pattern) ==
    /\ cache_ret' = [op |-> "keys", key |-> pattern, at |-> now,
                     ret |-> KeysResult(cache_container, pattern),
                     over |-> FALSE]
    /\ UNCHANGED <<now, cache_container, cron_task, next_wake, last_set, notCache>>

\* one wake of _start_clear_cron: _clear(), then asyncio.sleep(cron_interval)
CacheSweep ==
    /\ cron_task = "sleeping"
    /\ next_wake <= now
    /\ LET r == ClearResult(cache_container, now)
       IN  /\ cache_container' = r.container
           /\ cron_task' = IF r.raised THEN "failed" ELSE "sleeping"
           /\ next_wake' = IF r.raised THEN next_wake ELSE now + CronInterval
    /\ cache_ret' = [op |-> "sweep", key |-> <<>>, ret |-> None, at |-> now]
    /\ UNCHANGED <<now, last_set, notCache>>

\* a variant of CleanupResult that leaves the task as it is, to test the properties against
CleanupResultMut(task) == [task |-> task, raised |-> FALSE]

\* a variant of CleanupResult that starts a task where the old one has ended, to test the properties against
CleanupRestartMut(task) ==
    [task |-> IF task = "failed" THEN "sleeping"
              ELSE IF task = "sleeping" THEN "cancelled" ELSE task,
     raised |-> FALSE]

\* cleanup(): a task that is not done is cancelled and awaited, and the
\* CancelledError of the await is swallowed; a task that is done, or no task,
\* is left alone. A cancelled task does not run again, whether it was asleep,
\* due, or had not started its first pass.
CleanupResult(task) ==
    [task |-> IF task = "sleeping" THEN "cancelled" ELSE task, raised |-> FALSE]

CacheCleanup ==
    /\ cron_task' = CleanupResult(cron_task).task
    /\ cache_ret' = [op |-> "cleanup", key |-> <<>>, over |-> FALSE,
                     ret |-> IF CleanupResult(cron_task).raised THEN "raised" ELSE None]
    /\ UNCHANGED <<now, cache_container, next_wake, last_set, notCache>>

\* the clock advances; a due wake of the sweep task runs before it does
CacheTick ==
    /\ now < MaxTime
    /\ ~(cron_task = "sleeping" /\ next_wake <= now)
    /\ now' = now + 1
    /\ UNCHANGED <<cache_container, cron_task, next_wake, cache_ret, last_set, notCache>>



(***************************************************************************)
(* LLMAgent.judge_relevance and _simple_relevance_check                    *)
(***************************************************************************)
TruncLimit == 1000
MinTextLen == 10
ThresholdNum == 1
ThresholdDen == 5

\* Python values of a content field: a str (s holds its characters), None, an
\* int (s holds its digits), or the key is missing from the mapping
Str(chars) == [t |-> "str", s |-> chars]
NoneV == [t |-> "none", s |-> <<>>]
IntV(digits) == [t |-> "int", s |-> digits]
Missing == [t |-> "missing", s |-> <<>>]

\* bool(v)
Truthy(v) ==
    \/ v.t = "str" /\ v.s # <<>>
    \/ v.t = "int" /\ v.s # <<"0">>

\* str(v)
PyStr(v) == IF v.t = "none" THEN <<"N", "o", "n", "e">> ELSE v.s

\* content.get(field, "")
DictGetOr(content, field) ==
    IF content[field].t = "missing" THEN Str(<<>>) ELSE content[field]

IsSpace(ch) == ch = " "

\* a variant of StripLen under which no text is too short, to test the properties against
StripLenMut(s) == MinTextLen

\* len(s.strip())
StripLen(s) ==
    LET ink == {i \in DOMAIN s : ~IsSpace(s[i])}
    IN  IF ink = {} THEN 0
        ELSE LET lo == CHOOSE i \in ink : \A j \in 1..(i - 1) : IsSpace(s[j])
                 hi == CHOOSE i \in ink : \A j \in (i + 1)..Len(s) : IsSpace(s[j])
             IN  hi - lo + 1

\* set(s.split()): the maximal runs of non-whitespace characters
Tokens(s) ==
    LET starts == {i \in DOMAIN s : ~IsSpace(s[i]) /\ (i = 1 \/ IsSpace(s[i - 1]))}
        EndOf(i) == CHOOSE j \in i..Len(s) :
                        /\ j = Len(s) \/ IsSpace(s[j + 1])
                        /\ \A k \in i..j : ~IsSpace(s[k])
    IN  {SubSeq(s, i, EndOf(i)) : i \in starts}

\* the fullwidth comma U+FF0C and the ideographic full stop U+3002
CnComma == "U+FF0C"
CnStop == "U+3002"

\* s.replace(CnComma, ",").replace(CnStop, ".")
ReplacePunct(s) ==
    [i \in DOMAIN s |-> IF s[i] = CnComma THEN ","
                        ELSE IF s[i] = CnStop THEN "." ELSE s[i]]

Verdict(rel, score, reason) ==
    [raised |-> FALSE, is_relevant |-> rel, score |-> score, reason |-> reason]
Raised(exc) ==
    [raised |-> TRUE, is_relevant |-> "None", score |-> NoneV, reason |-> exc]

\* a float as a fraction
Frac(n, d) == [t |-> "num", num |-> n, den |-> d]

\* a variant of AboveThreshold with the threshold itself counted as above, to test the properties against
AboveThresholdMut(inter, total) == inter * ThresholdDen >= total * ThresholdNum

\* score > 0.2
AboveThreshold(inter, total) == inter * ThresholdDen > total * ThresholdNum

\* _simple_relevance_check(content_text, event_description); min(score, 1.0) is
\* the score itself, the intersection being a subset of the event's tokens
SimpleRelevanceCheck(content_text, event_description) ==
    LET event_keywords == Tokens(ReplacePunct(event_description))
        content_words == Tokens(content_text)
        inter == Cardinality(event_keywords \cap content_words)
        total == Cardinality(event_keywords)
        score == IF total > 0 THEN Frac(inter, total) ELSE Frac(0, 1)
    IN  Verdict(IF total > 0 /\ AboveThreshold(inter, total) THEN "True" ELSE "False",
                score, "overlap")

\* lines 122-130: the text to classify, or the exception its assembly raises
AssembleText(content, platform) ==
    LET cat(a, b) == IF a.t = "str" /\ b.t = "str"
                     THEN [raised |-> FALSE, v |-> Str(a.s \o <<" ">> \o b.s)]
                     ELSE [raised |-> TRUE, v |-> NoneV]
    IN  CASE platform = "weibo" ->
                 [raised |-> FALSE,
                  v |-> IF Truthy(DictGetOr(content, "content"))
                        THEN DictGetOr(content, "content")
                        ELSE DictGetOr(content, "text")]
          [] platform = "bilibili" ->
                 cat(DictGetOr(content, "title"), DictGetOr(content, "desc"))
          [] platform = "zhihu" ->
                 cat(DictGetOr(content, "title"), DictGetOr(content, "content"))
          [] OTHER ->
                 [raised |-> FALSE,
                  v |-> Str(PyStr(DictGetOr(content, "title")) \o <<" ">>
                            \o PyStr(DictGetOr(content, "content")))]

\* lines 136-137: content_text[:1000] + "..."
Truncate(s) ==
    IF Len(s) > TruncLimit THEN SubSeq(s, 1, TruncLimit) \o <<".", ".", ".">> ELSE s

\* a variant of ParseReply that takes the verdict from the reply's score, to
\* test the properties against
ParseReplyMut(reply, content_text, event_description) ==
    IF reply.kind = "dict"
    THEN Verdict(IF reply.score.t = "num" /\ 2 * reply.score.num > reply.score.den
                 THEN "True" ELSE "False",
                 IF reply.score.t = "missing" THEN Frac(0, 1) ELSE reply.score,
                 IF reply.reason = "missing" THEN "no_reason" ELSE reply.reason)
    ELSE SimpleRelevanceCheck(content_text, event_description)

\* lines 161-196: the reply of _call_llm (after the fence is stripped) decides
ParseReply(reply, content_text, event_description) ==
    IF reply.kind = "dict"
    THEN Verdict(IF reply.is_relevant = "missing" THEN "False" ELSE reply.is_relevant,
                 IF reply.score.t = "missing" THEN Frac(0, 1) ELSE reply.score,
                 IF reply.reason = "missing" THEN "no_reason" ELSE reply.reason)
    ELSE SimpleRelevanceCheck(content_text, event_description)

\* a variant of NoKeyVerdict that scores by keyword overlap instead, to test the properties against
NoKeyVerdictMut(content, event_description, platform) ==
    LET a == AssembleText(content, platform)
    IN  IF a.raised \/ a.v.t # "str" THEN Verdict("False", Frac(0, 1), "too_short")
        ELSE SimpleRelevanceCheck(a.v.s, event_description)

\* with no credential: lines 117-119
NoKeyVerdict(content, event_description, platform) ==
    Verdict("True", Frac(1, 2), "no_api_key")

\* judge_relevance(content, event_description, platform): [called, res], where
\* called says whether _call_llm was invoked and res is the verdict or the raise
JudgeRelevance(api_key, content, event_description, platform, reply) ==
    IF ~api_key
    THEN [called |-> FALSE, res |-> NoKeyVerdict(content, event_description, platform)]
    ELSE LET a == AssembleText(content, platform)
         IN  IF a.raised THEN [called |-> FALSE, res |-> Raised("TypeError")]
             ELSE IF ~Truthy(a.v)
                  THEN [called |-> FALSE,
                        res |-> Verdict("False", Frac(0, 1), "too_short")]
             ELSE IF a.v.t # "str"
                  THEN [called |-> FALSE, res |-> Raised("AttributeError")]
             ELSE IF StripLen(a.v.s) < MinTextLen
                  THEN [called |-> FALSE,
                        res |-> Verdict("False", Frac(0, 1), "too_short")]
             ELSE [called |-> TRUE,
                   res |-> ParseReply(reply, Truncate(a.v.s), event_description)]

(***************************************************************************)
(* judge_relevance called on its own, over a set of arguments              *)
(***************************************************************************)
TShort == <<"a", "a", " ", "b", "b">>
TMatch == <<"a", "a", " ", "b", "b", " ", "c", "c", " ", "d", "d">>
TOther == <<"x", "x", " ", "y", "y", " ", "z", "z", " ", "w", "w">>
\* longer than TruncLimit: "xx xx ... xx aa", the only "aa" lying past the limit
TLong ==
    [i \in 1..(TruncLimit + 4) |->
        IF i > TruncLimit + 2 THEN "a" ELSE IF i % 3 = 0 THEN " " ELSE "x"]

EvTwo == <<"a", "a", " ", "b", "b">>
EvCn == <<"a", "a", CnComma, "b", "b", CnStop>>
EvFive == <<"a", "a", " ", "e", "1", " ", "e", "2", " ", "e", "3", " ", "e", "4">>
EvEmpty == <<>>
Events == {EvTwo, EvCn, EvFive, EvEmpty}

PlatformArgs == {"weibo", "bilibili", "zhihu", "unknown"}

Contents ==
    {[content |-> c, text |-> x, title |-> t, desc |-> d] :
        c \in {Missing, NoneV, IntV(<<"5">>), Str(TMatch), Str(TLong)},
        x \in {Missing, Str(TOther)},
        t \in {Missing, NoneV, Str(TShort), Str(TMatch)},
        d \in {Missing, Str(TOther)}}

\* what _call_llm and json.loads make of the remote call: the call raises (network
\* error, non-2xx status, timeout, a body that is no chat completion), the reply
\* is not a str, is not JSON, is JSON but no object, or is a JSON object
Reply(kind, rel, score, reason) ==
    [kind |-> kind, is_relevant |-> rel, score |-> score, reason |-> reason]
NoReply(kind) == Reply(kind, "missing", Missing, "missing")
Replies ==
    {NoReply("error"), NoReply("nonstr"), NoReply("badjson"), NoReply("nondict"),
     Reply("dict", "True", Frac(9, 10), "model"),
     Reply("dict", "True", Frac(1, 10), "model"),
     Reply("dict", "False", Frac(9, 10), "model"),
     Reply("dict", "True", NoneV, "model"),
     Reply("dict", "missing", Missing, "missing")}

JudgePending == [state |-> "pending", called |-> FALSE, reply |-> NoReply("none"),
                 res |-> Raised("none")]
JudgeArgs ==
    [api_key : BOOLEAN, content : Contents, event : Events, platform : PlatformArgs]

JudgeIdle ==
    /\ j_in = [api_key |-> FALSE, content |-> [content |-> Missing, text |-> Missing,
                                                title |-> Missing, desc |-> Missing],
               event |-> EvEmpty, platform |-> "unknown"]
    /\ j_out = JudgePending

JudgeInit ==
    /\ j_in \in JudgeArgs
    /\ j_out = JudgePending

\* one call of judge_relevance, the remote outcome being the environment's choice
JudgeCall(reply) ==
    /\ j_out.state = "pending"
    /\ LET r == JudgeRelevance(j_in.api_key, j_in.content, j_in.event,
                               j_in.platform, reply)
       IN  j_out' = [state |-> IF r.res.raised THEN "raised" ELSE "returned",
                     called |-> r.called,
                     reply |-> IF r.called THEN reply ELSE NoReply("none"),
                     res |-> r.res]
    /\ UNCHANGED <<j_in, notJudge>>

(***************************************************************************)
(* _simple_relevance_check called on its own, over a set of arguments      *)
(***************************************************************************)
\* the texts and event descriptions of the calls: empty, blank, repeated words,
\* Chinese and ASCII punctuation, with and without spaces
FallbackTexts ==
    {<<>>, <<" ">>, TShort, TMatch, TOther, EvCn, EvFive,
     <<"a", "a", " ", "b", "b", " ", "a", "a">>,
     <<"a", "a", CnComma, " ", "b", "b">>,
     <<"a", "a", ",", "b", "b", ".">>}

FallbackPending == [state |-> "pending", res |-> Raised("none")]

FallbackIdle ==
    /\ fb_in = [content_text |-> <<>>, event_description |-> <<>>]
    /\ fb_out = FallbackPending

FallbackInit ==
    /\ fb_in \in [content_text : FallbackTexts, event_description : FallbackTexts]
    /\ fb_out = FallbackPending

\* one call of _simple_relevance_check(content_text, event_description)
FallbackCall ==
    /\ fb_out.state = "pending"
    /\ fb_out' = [state |-> "returned",
                  res |-> SimpleRelevanceCheck(fb_in.content_text,
                                               fb_in.event_description)]
    /\ UNCHANGED <<fb_in, notFallback>>

(***************************************************************************)
(* LLMAgent.extract_keywords                                               *)
(***************************************************************************)
MaxKeywords == 2

\* s.split(sep) for a separator of one element: the pieces between separators
RECURSIVE SplitOn(_, _)
SplitOn(s, sep) ==
    IF sep \notin Range(s) THEN <<s>>
    ELSE LET i == CHOOSE k \in DOMAIN s : s[k] = sep /\ \A j \in 1..(k - 1) : s[j] # sep
         IN  <<SubSeq(s, 1, i - 1)>> \o SplitOn(SubSeq(s, i + 1, Len(s)), sep)

\* s.strip()
RECURSIVE Strip(_)
Strip(s) ==
    IF s = <<>> THEN s
    ELSE IF IsSpace(Head(s)) THEN Strip(Tail(s))
    ELSE IF IsSpace(s[Len(s)]) THEN Strip(SubSeq(s, 1, Len(s) - 1))
    ELSE s

\* s.split(): the runs of non-space characters, in order
RECURSIVE SplitWs(_)
SplitWs(s) ==
    IF s = <<>> THEN <<>>
    ELSE IF IsSpace(Head(s)) THEN SplitWs(Tail(s))
    ELSE LET n == IF \E k \in DOMAIN s : IsSpace(s[k])
                  THEN (CHOOSE k \in DOMAIN s :
                            IsSpace(s[k]) /\ \A j \in 1..(k - 1) : ~IsSpace(s[j])) - 1
                  ELSE Len(s)
         IN  <<SubSeq(s, 1, n)>> \o SplitWs(SubSeq(s, n + 1, Len(s)))

\* a variant of Take that keeps the whole sequence, to test the properties against
TakeMut(seq, n) == seq

\* seq[:n] for n >= 0
Take(seq, n) == SubSeq(seq, 1, IF n < Len(seq) THEN n ELSE Len(seq))

\* a list and a dict as Python values
ListV(seq) == [t |-> "list", s |-> seq]
DictV == [t |-> "dict", s |-> <<>>]

\* lines 90-91 and 98-99: the description with the Chinese comma and full stop
\* replaced by "," and ".", split on ",", each piece stripped, empty pieces
\* dropped, the first max_keywords kept
DelimiterSplit(event_description, max_keywords) ==
    LET pieces == SplitOn(ReplacePunct(event_description), ",")
        stripped == [i \in DOMAIN pieces |-> Strip(pieces[i])]
    IN  Take(SelectSeq(stripped, LAMBDA k : k # <<>>), max_keywords)

\* a variant of NoKeyKeywords that splits on the delimiters instead, to test the properties against
NoKeyKeywordsMut(event_description, max_keywords) ==
    DelimiterSplit(event_description, max_keywords)

\* line 50: event_description.split()[:max_keywords]
NoKeyKeywords(event_description, max_keywords) ==
    Take(SplitWs(event_description), max_keywords)

\* The reply text as a sequence of parts: a fence with the json tag (three
\* backticks and "json"), a bare fence (three backticks), prose, and the JSON
\* document the model wrote
FenceJson == "fence_json"
Fence == "fence"
Prose == "prose"
Doc == "json"

\* lines 75-78: the part between the first tagged fence and the next fence, or
\* else between the first and second bare fence, or else the whole reply
StripFence(text) ==
    IF FenceJson \in Range(text) THEN SplitOn(SplitOn(text, FenceJson)[2], Fence)[1]
    ELSE IF Fence \in Range(text) THEN SplitOn(text, Fence)[2]
    ELSE text

\* line 50 and lines 70-100: what extract_keywords returns and whether it called
\* the model. reply.kind is "error" when _call_llm raises (network error, non-2xx
\* status, a body that is no JSON or lacks choices[0].message.content), "nonstr"
\* when the content is no string, "text" otherwise; json.loads succeeds when
\* what is left of the text is the JSON document alone, whose top level and
\* "keywords" value are reply.top and reply.keywords.
ExtractKeywords(api_key, event_description, max_keywords, reply) ==
    LET fallback == ListV(DelimiterSplit(event_description, max_keywords))
        kw == reply.keywords
    IN  IF ~api_key
        THEN [called |-> FALSE, raised |-> FALSE,
              res |-> ListV(NoKeyKeywords(event_description, max_keywords))]
        ELSE [called |-> TRUE, raised |-> FALSE,
              res |-> IF reply.kind # "text" THEN fallback
                      ELSE IF StripFence(reply.text) # <<Doc>> THEN fallback
                      ELSE IF reply.top # "dict" THEN fallback
                      ELSE IF kw.t = "list" /\ kw.s # <<>>
                           THEN ListV(Take(kw.s, max_keywords))
                      ELSE IF kw.t = "str" /\ kw.s # <<>>
                           THEN Str(Take(kw.s, max_keywords))
                      ELSE fallback]

ExtractReply(kind, text, top, kws) ==
    [kind |-> kind, text |-> text, top |-> top, keywords |-> kws]

\* the keywords a model reply carries
ModelKeywords == ListV(<<<<"k", "1">>, <<"k", "2">>, <<"k", "3">>, <<"k", "4">>>>)

\* the outcomes of the remote call
ExtractReplies ==
    {ExtractReply("error", <<>>, "none", Missing),
     ExtractReply("nonstr", <<>>, "none", Missing),
     ExtractReply("text", <<Prose>>, "none", Missing),
     ExtractReply("text", <<Prose, Doc>>, "dict", ModelKeywords),
     ExtractReply("text", <<Doc>>, "list", Missing),
     ExtractReply("text", <<Doc>>, "dict", Missing),
     ExtractReply("text", <<Doc>>, "dict", ListV(<<>>)),
     ExtractReply("text", <<Doc>>, "dict", ModelKeywords),
     ExtractReply("text", <<Doc>>, "dict", Str(<<"k", "1", ",", "k", "2">>)),
     ExtractReply("text", <<Doc>>, "dict", DictV),
     ExtractReply("text", <<Doc>>, "dict", IntV(<<"7">>)),
     ExtractReply("text", <<Prose, FenceJson, Doc, Fence, Prose>>, "dict", ModelKeywords),
     ExtractReply("text", <<Fence, Doc, Fence>>, "dict", ModelKeywords)}

\* the event descriptions of the calls
ExtractEvents ==
    {<<>>,
     <<"a", "a", " ", "b", "b", " ", " ", "c", "c", " ", "d", "d">>,
     <<"a", "a", ",", " ", "b", "b", CnComma, "c", " ", "c", ",", ",", "d", "d">>,
     <<"a", "a", CnStop, "b", "b", ".", "c", "c">>,
     <<" ", "a", "a", " ", CnComma, " ", "b", "b", CnStop, " ">>}

ExtractPending == [state |-> "pending", called |-> FALSE, res |-> NoneV]

ExtractIdle ==
    /\ ex_in = [api_key |-> FALSE, event_description |-> <<>>, max_keywords |-> 0,
                reply |-> ExtractReply("error", <<>>, "none", Missing)]
    /\ ex_out = ExtractPending

ExtractInit ==
    /\ ex_in \in [api_key : BOOLEAN, event_description : ExtractEvents,
                  max_keywords : 0..MaxKeywords, reply : ExtractReplies]
    /\ ex_out = ExtractPending

\* one call of extract_keywords(event_description, max_keywords)
ExtractCall ==
    /\ ex_out.state = "pending"
    /\ LET r == ExtractKeywords(ex_in.api_key, ex_in.event_description,
                                ex_in.max_keywords, ex_in.reply)
       IN  ex_out' = [state |-> IF r.raised THEN "raised" ELSE "returned",
                      called |-> r.called, res |-> r.res]
    /\ UNCHANGED <<ex_in, notExtract>>

(***************************************************************************)
(* DataPostProcessor: Load and Classify                                    *)
(***************************************************************************)
Platforms == <<"weibo", "bilibili", "zhihu">>
PlatformSet == Range(Platforms)

\* An entry of a content file. A record object carries id, the value of the
\* platform's id expression (note_id; video_id; url or content_url or content_id),
\* and the text fields the pipeline reads; isdict is FALSE for an entry that is no
\* JSON object.
Item(id, content, title, desc) ==
    [isdict |-> TRUE, id |-> id, content |-> content, title |-> title, desc |-> desc,
     has_comments |-> FALSE, comments |-> <<>>]
NonDict ==
    [isdict |-> FALSE, id |-> Missing, content |-> Missing, title |-> Missing,
     desc |-> Missing, has_comments |-> FALSE, comments |-> <<>>]

\* A JSON file: an array ("list"), an object ("object"), or a file that cannot be
\* read or parsed ("corrupt")
ListFile(items) == [kind |-> "list", items |-> items]
CorruptFile == [kind |-> "corrupt", items |-> <<>>]
ObjectFile == [kind |-> "object", items |-> <<>>]

\* lines 88-98: all_data.extend(data) for every file that loads as a list
RECURSIVE ReadFiles(_)
ReadFiles(fs) ==
    IF fs = <<>> THEN <<>>
    ELSE (IF Head(fs).kind = "list" THEN Head(fs).items ELSE <<>>) \o ReadFiles(Tail(fs))

\* a variant of NotSeen that never recognises a repeated id, to test the properties against
NotSeenMut(id, seen) == TRUE

\* the membership test of the dedup loop: note_id not in seen_ids
NotSeen(id, seen) == id \notin seen

\* lines 100-117: the dedup loop over all_data, from entry i on. seen holds the raw
\* ids, the index is keyed by str(id); an entry that is no dict makes item.get
\* raise, and the outer handler returns [] with the index as filled so far
RECURSIVE LoadLoop(_, _, _, _, _)
LoadLoop(entries, i, seen, unique, index) ==
    IF i > Len(entries) THEN [unique |-> unique, index |-> index, failed |-> FALSE]
    ELSE IF ~entries[i].isdict THEN [unique |-> <<>>, index |-> index, failed |-> TRUE]
    ELSE LET id == entries[i].id
         IN  IF Truthy(id) /\ NotSeen(id, seen)
             THEN LoadLoop(entries, i + 1, seen \cup {id}, Append(unique, i),
                           (PyStr(id) :> i) @@ index)
             ELSE LoadLoop(entries, i + 1, seen, unique, index)

EmptyIndex == [k \in {} |-> 0]

\* _load_weibo_data / _load_bilibili_data / _load_zhihu_data
LoadPlatform(fs) == LoadLoop(ReadFiles(fs), 1, {}, <<>>, EmptyIndex)

\* the mapping judge_relevance (of the pipeline) passes to the classifier
ContentArg(item, platform) ==
    CASE platform = "weibo" ->
             [content |-> DictGetOr(item, "content"), text |-> Missing,
              title |-> Missing, desc |-> Missing]
      [] platform = "bilibili" ->
             [content |-> Missing, text |-> Missing,
              title |-> DictGetOr(item, "title"), desc |-> DictGetOr(item, "desc")]
      [] OTHER ->
             [content |-> DictGetOr(item, "content"), text |-> Missing,
              title |-> DictGetOr(item, "title"), desc |-> Missing]

\* a variant of Retain that needs both a relevant verdict and the filter off, to test the properties against
RetainMut(res, filtering) == res.is_relevant = "True" /\ ~filtering

\* line 210: relevance["is_relevant"] or not config.ENABLE_RELEVANCE_FILTER
Retain(res, filtering) == res.is_relevant = "True" \/ ~filtering

\* a variant of ClassifyRecord that does not skip a record whose call raised, to test the properties against
ClassifyRecordMut(local, item, platform, key, filtering, event, reply) ==
    LET j == JudgeRelevance(key, ContentArg(item, platform), event, platform, reply)
    IN  [res |-> j.res,
         called |-> j.called,
         local |-> IF Retain(j.res, filtering)
                   THEN Append(local, PyStr(item.id)) ELSE local]

\* lines 197-224: one record of the loop; judge_relevance raising is caught and
\* the record skipped. The formatting of the score in the log line comes after
\* the append and its failure is caught as well.
ClassifyRecord(local, item, platform, key, filtering, event, reply) ==
    LET j == JudgeRelevance(key, ContentArg(item, platform), event, platform, reply)
    IN  [res |-> j.res,
         called |-> j.called,
         local |-> IF ~j.res.raised /\ Retain(j.res, filtering)
                   THEN Append(local, PyStr(item.id)) ELSE local]

PipeEvent == EvTwo

ClInit == [p |-> 1, i |-> 1,
           local |-> [q \in PlatformSet |-> <<>>],
           log |-> [q \in PlatformSet |-> <<>>]]

\* process(), first step: load_all_platform_data
PipeLoad ==
    /\ pc = "load"
    /\ LET r == [q \in PlatformSet |-> LoadPlatform(files[q])]
       IN  /\ objs' = [q \in PlatformSet |-> ReadFiles(files[q])]
           /\ all_data' = [q \in PlatformSet |-> r[q].unique]
           /\ cached_data' = [q \in PlatformSet |-> r[q].index]
    /\ pc' = "classify"
    /\ UNCHANGED <<relevant_ids, cl, latest, snapshots, persist_runs, pipeInputs, notPipe>>

\* the remote outcomes the pipeline's runs take: the call raises, or the model
\* answers relevant with a low score, or not relevant with a high score
PipeReplies ==
    {NoReply("error"),
     Reply("dict", "True", Frac(1, 10), "model"),
     Reply("dict", "False", Frac(9, 10), "model")}

\* judge_relevance: the classifier is awaited for the next record of the platform
PipeClassifyRecord(reply) ==
    /\ pc = "classify"
    /\ cl.p <= Len(Platforms)
    /\ LET q == Platforms[cl.p]
       IN  /\ cl.i <= Len(all_data[q])
           /\ LET item == objs[q][all_data[q][cl.i]]
                  r == ClassifyRecord(cl.local[q], item, q, llm_api_key, filter_on,
                                      PipeEvent, reply)
              IN  cl' = [cl EXCEPT !.i = cl.i + 1,
                                   !.local[q] = r.local,
                                   !.log[q] = Append(cl.log[q],
                                                     [res |-> r.res, called |-> r.called,
                                                      reply |-> IF r.called THEN reply.kind
                                                                ELSE "none",
                                                      model |-> IF r.called THEN reply
                                                                ELSE NoReply("none")])]
    /\ UNCHANGED <<pc, objs, all_data, cached_data, relevant_ids, latest, snapshots, persist_runs,
                   pipeInputs, notPipe>>

\* judge_relevance: the platform's loop ends, the next platform's begins
PipeClassifyNextPlatform ==
    /\ pc = "classify"
    /\ cl.p <= Len(Platforms)
    /\ cl.i > Len(all_data[Platforms[cl.p]])
    /\ cl' = [cl EXCEPT !.p = cl.p + 1, !.i = 1]
    /\ UNCHANGED <<pc, objs, all_data, cached_data, relevant_ids, latest, snapshots, persist_runs,
                   pipeInputs, notPipe>>

\* judge_relevance, lines 293-296: the local lists become self.relevant_ids
PipeClassifyEnd ==
    /\ pc = "classify"
    /\ cl.p > Len(Platforms)
    /\ relevant_ids' = cl.local
    /\ pc' = "detail"
    /\ UNCHANGED <<objs, all_data, cached_data, cl, latest, snapshots, persist_runs, pipeInputs,
                   notPipe>>

(***************************************************************************)
(* The shared config module and the callers that override it               *)
(***************************************************************************)
ConfigFields ==
    {"PLATFORM", "KEYWORDS", "COOKIES", "CRAWLER_TYPE", "HEADLESS",
     "ENABLE_GET_COMMENTS", "WEIBO_SPECIFIED_ID_LIST"}

\* the callers: get_weibo_detail_content of the pipeline, crawl_* of the manager
Callers == {"detail", "weibo", "bilibili", "zhihu"}

\* config.WEIBO_SPECIFIED_ID_LIST names a list object: the module's own list
\* ("config_list") or, once line 328 has run, the list self.relevant_ids["weibo"]
ListAt(ref, own, rel) == IF ref = "config_list" THEN own ELSE rel

\* the values of config's fields, the list by its content
ConfigValue(cfg, own, rel) ==
    [f \in ConfigFields |->
        IF f = "WEIBO_SPECIFIED_ID_LIST" THEN ListAt(cfg[f], own, rel) ELSE cfg[f]]

\* the fields a caller saves before its try block (the detail caller copies the list)
SavedFields(b) ==
    CASE b = "detail" -> ConfigFields \ {"KEYWORDS"}
      [] b = "bilibili" ->
             ConfigFields \ {"ENABLE_GET_COMMENTS", "WEIBO_SPECIFIED_ID_LIST"}
      [] OTHER -> ConfigFields \ {"WEIBO_SPECIFIED_ID_LIST"}

\* ",".join(self.keywords), the keywords kept as a list
JoinKeywords(kws) == <<"join", kws>>

\* the assignments at the head of a caller's try block
Override(b, cfg, kws) ==
    CASE b = "detail" ->
             [cfg EXCEPT !["PLATFORM"] = "wb", !["COOKIES"] = "WB_cookie",
                         !["CRAWLER_TYPE"] = "detail",
                         !["WEIBO_SPECIFIED_ID_LIST"] = "relevant_ids_weibo",
                         !["HEADLESS"] = TRUE, !["ENABLE_GET_COMMENTS"] = TRUE]
      [] b = "weibo" ->
             [cfg EXCEPT !["PLATFORM"] = "wb", !["KEYWORDS"] = JoinKeywords(kws),
                         !["COOKIES"] = "WB_cookie", !["CRAWLER_TYPE"] = "search",
                         !["HEADLESS"] = TRUE, !["ENABLE_GET_COMMENTS"] = TRUE]
      [] b = "bilibili" ->
             [cfg EXCEPT !["PLATFORM"] = "bili", !["KEYWORDS"] = JoinKeywords(kws),
                         !["COOKIES"] = "BILI_cookie", !["CRAWLER_TYPE"] = "search",
                         !["HEADLESS"] = TRUE]
      [] OTHER ->
             [cfg EXCEPT !["PLATFORM"] = "zhihu", !["KEYWORDS"] = JoinKeywords(kws),
                         !["COOKIES"] = "ZHIHU_cookie", !["CRAWLER_TYPE"] = "search",
                         !["HEADLESS"] = TRUE, !["ENABLE_GET_COMMENTS"] = FALSE]

\* a variant of RestoredFields that forgets HEADLESS, to test the properties against
RestoredFieldsMut(b) == SavedFields(b) \ {"WEIBO_SPECIFIED_ID_LIST", "HEADLESS"}

\* the fields a caller's finally block assigns back by name
RestoredFields(b) == SavedFields(b) \ {"WEIBO_SPECIFIED_ID_LIST"}

\* the finally block: config.X = original_X for the saved fields
Restore(b, cfg, saved) ==
    [f \in ConfigFields |-> IF f \in RestoredFields(b) THEN saved[f] ELSE cfg[f]]

\* out and updated are history: the detail output the detail caller read and
\* the updated_count of its closing log line
BranchIdle == [pc |-> "idle", saved |-> <<>>, saved_list |-> <<>>, before |-> <<>>,
               out |-> <<>>, updated |-> 0]

\* crawl_all_platforms not called
GatherIdle == [pc |-> "idle", results |-> <<>>]

\* a caller runs up to its first await: it saves the originals and overrides config
CallerBegin(b) ==
    /\ br[b].pc = "idle"
    /\ br' = [br EXCEPT ![b] =
                 [pc |-> "crawling",
                  saved |-> [f \in SavedFields(b) |-> config[f]],
                  saved_list |-> ListAt(config["WEIBO_SPECIFIED_ID_LIST"], config_list,
                                        relevant_ids["weibo"]),
                  before |-> ConfigValue(config, config_list, relevant_ids["weibo"]),
                  out |-> <<>>, updated |-> 0]]
    /\ config' = Override(b, config, keywords)

\* the finally block of a caller, for the state it leaves: config.X = original_X,
\* and for the detail caller config.WEIBO_SPECIFIED_ID_LIST[:] = original, a slice
\* assignment into whichever list object the name is bound to by then
CallerRestore(b) ==
    /\ config' = Restore(b, config, br[b].saved)
    /\ IF b = "detail"
       THEN IF config["WEIBO_SPECIFIED_ID_LIST"] = "config_list"
            THEN /\ config_list' = br[b].saved_list
                 /\ UNCHANGED relevant_ids
            ELSE /\ relevant_ids' = [relevant_ids EXCEPT !["weibo"] = br[b].saved_list]
                 /\ UNCHANGED config_list
       ELSE UNCHANGED <<config_list, relevant_ids>>

\* the ids crawl_weibo reads back from the saved search files
NoteIdLists == {<<>>, <<<<"1">>>>, <<<<"1">>, <<"2">>>>}

\* crawl_weibo: the crawler returns; the saved note ids become the result
CrawlWeiboReturn(ids) ==
    /\ br["weibo"].pc = "crawling"
    /\ relevant_note_ids' = [relevant_note_ids EXCEPT !["weibo"] = ids]
    /\ CallerRestore("weibo")
    /\ br' = [br EXCEPT !["weibo"].pc = "done"]
    /\ UNCHANGED <<gather, keywords, pipeInputs, pc, objs, all_data, cached_data, cl, latest,
                   snapshots, persist_runs, notPipeCrawl>>

\* crawl_bilibili / crawl_zhihu: the crawler returns; the ids found are judged one
\* by one, each judgement an await
CrawlSearchReturn(b) ==
    /\ b \in {"bilibili", "zhihu"}
    /\ br[b].pc = "crawling"
    /\ br' = [br EXCEPT ![b].pc = "judging"]
    /\ UNCHANGED <<config, config_list, gather, keywords, relevant_note_ids, pipeInputs,
                   pipeData, notPipeCrawl>>

\* crawl_bilibili / crawl_zhihu: the judging loop ends with the ids it kept
CrawlJudged(b, ids) ==
    /\ b \in {"bilibili", "zhihu"}
    /\ br[b].pc = "judging"
    /\ relevant_note_ids' = [relevant_note_ids EXCEPT ![b] = ids]
    /\ CallerRestore(b)
    /\ br' = [br EXCEPT ![b].pc = "done"]
    /\ UNCHANGED <<gather, keywords, pipeInputs, pc, objs, all_data, cached_data, cl, latest,
                   snapshots, persist_runs, notPipeCrawl>>

\* a crawl_* call ends by an exception (of the crawler, of a step after it, or a
\* cancellation): the finally block runs, the exception goes to the caller
CrawlRaise(b) ==
    /\ b \in {"weibo", "bilibili", "zhihu"}
    /\ br[b].pc \in {"crawling", "judging"}
    /\ CallerRestore(b)
    /\ br' = [br EXCEPT ![b].pc = "raised"]
    /\ UNCHANGED <<gather, keywords, relevant_note_ids, pipeInputs, pc, objs, all_data,
                   cached_data, cl, latest, snapshots, persist_runs, notPipeCrawl>>

\* crawl_weibo / crawl_bilibili / crawl_zhihu up to the crawler's start()
CrawlBegin(b) ==
    /\ b \in {"weibo", "bilibili", "zhihu"}
    /\ CallerBegin(b)
    /\ UNCHANGED <<config_list, gather, keywords, relevant_note_ids, pipeInputs, pipeData,
                   notPipeCrawl>>

\* the coroutines crawl_all_platforms hands to asyncio.gather, in argument order
GatherBranches == <<"weibo", "bilibili">>

\* an exception object as a value
ExceptionV == [t |-> "exception", s |-> <<>>]

\* a variant of GatherOutcome in which the first exception ends the gather and goes to the caller, to test the properties against
GatherOutcomeMut(brs, ids) ==
    LET failed == \E i \in DOMAIN GatherBranches : brs[GatherBranches[i]].pc = "raised"
    IN  [ready |-> failed \/ \A i \in DOMAIN GatherBranches :
                                 brs[GatherBranches[i]].pc = "done",
         raised |-> failed,
         results |-> [i \in DOMAIN GatherBranches |-> ListV(ids[GatherBranches[i]])]]

\* asyncio.gather(..., return_exceptions=True): it is done when every branch has
\* ended, and gives, in argument order, what each branch returned or the
\* exception that ended it. A branch returns the list it stored in
\* relevant_note_ids.
GatherOutcome(brs, ids) ==
    [ready |-> \A i \in DOMAIN GatherBranches :
                   brs[GatherBranches[i]].pc \in {"done", "raised"},
     raised |-> FALSE,
     results |-> [i \in DOMAIN GatherBranches |->
                     IF brs[GatherBranches[i]].pc = "raised" THEN ExceptionV
                     ELSE ListV(ids[GatherBranches[i]])]]

\* crawl_all_platforms up to the gather: the keywords are extracted and stored
GatherBegin(kws) ==
    /\ gather.pc = "idle"
    /\ \A b \in Callers : br[b].pc = "idle"
    /\ keywords' = kws
    /\ gather' = [pc |-> "gathering", results |-> <<>>]
    /\ UNCHANGED <<config, config_list, br, relevant_note_ids, pipeInputs, pipeData,
                   notPipeCrawl>>

\* a branch of the gather starts; the tasks start in argument order
GatherCrawlBegin(b) ==
    /\ gather.pc = "gathering"
    /\ \E i \in DOMAIN GatherBranches :
           /\ GatherBranches[i] = b
           /\ \A j \in 1..(i - 1) : br[GatherBranches[j]].pc # "idle"
    /\ CrawlBegin(b)

\* the gather is done: crawl_all_platforms logs the list lengths and returns results
GatherReturn ==
    /\ gather.pc = "gathering"
    /\ LET o == GatherOutcome(br, relevant_note_ids)
       IN  /\ o.ready
           /\ gather' = [pc |-> IF o.raised THEN "raised" ELSE "returned",
                         results |-> o.results]
    /\ UNCHANGED <<config, config_list, br, keywords, relevant_note_ids, pipeInputs,
                   pipeData, notPipeCrawl>>

\* the caller of a finished call takes its result (or its exception)
CallerAck(b) ==
    /\ br[b].pc \in {"done", "raised"}
    /\ br' = [br EXCEPT ![b] = BranchIdle]
    /\ UNCHANGED <<config, config_list, gather, keywords, relevant_note_ids, pipeInputs,
                   pipeData, notPipeCrawl>>

(***************************************************************************)
(* DataPostProcessor: Detail Enrichment, Comment Merge, Persist            *)
(***************************************************************************)
TFull == <<"a", "a", " ", "b", "b", " ", "f", "u", "l", "l">>

\* a detail_contents_*.json entry
DetailItem(id, content) == [note_id |-> id, content |-> content]

\* a variant of UpdateFromDetail that counts every detail entry of an indexed
\* record, changed or not, to test the properties against
RECURSIVE UpdateFromDetailMut(_, _, _, _, _)
UpdateFromDetailMut(recs, index, details, i, updated_count) ==
    IF i > Len(details) THEN [recs |-> recs, updated_count |-> updated_count]
    ELSE LET d == details[i]
             k == PyStr(d.note_id)
             hit == Truthy(d.note_id) /\ Truthy(d.content) /\ k \in DOMAIN index
         IN  UpdateFromDetailMut(
                 IF hit THEN [recs EXCEPT ![index[k]].content = d.content] ELSE recs,
                 index, details, i + 1,
                 IF hit THEN updated_count + 1 ELSE updated_count)

\* lines 386-400 for the entries of the detail files, from entry i on: the content
\* of an indexed record is overwritten when the detail content differs, and
\* updated_count counts the overwrites
RECURSIVE UpdateFromDetail(_, _, _, _, _)
UpdateFromDetail(recs, index, details, i, updated_count) ==
    IF i > Len(details) THEN [recs |-> recs, updated_count |-> updated_count]
    ELSE LET d == details[i]
             k == PyStr(d.note_id)
             hit == Truthy(d.note_id) /\ Truthy(d.content) /\ k \in DOMAIN index
             changed == hit /\ d.content # DictGetOr(recs[index[k]], "content")
         IN  UpdateFromDetail(
                 IF changed THEN [recs EXCEPT ![index[k]].content = d.content] ELSE recs,
                 index, details, i + 1,
                 IF changed THEN updated_count + 1 ELSE updated_count)

\* what the detail crawl leaves in detail_contents_*.json
DetailOutputs ==
    {<<>>,
     <<DetailItem(Str(<<"1">>), Str(TFull))>>,
     <<DetailItem(IntV(<<"1">>), Str(TFull)), DetailItem(Str(<<"7">>), Str(TFull))>>,
     <<DetailItem(Str(<<"1">>), Str(TMatch)), DetailItem(Str(<<"1">>), Str(TFull)),
       DetailItem(Str(<<"2">>), Str(<<>>)), DetailItem(NoneV, Str(TFull))>>}

\* a variant of NothingRelevant that never holds, to test the properties against
NothingRelevantMut(ids) == FALSE

\* line 307: not self.relevant_ids["weibo"]
NothingRelevant(ids) == ids = <<>>

\* get_weibo_detail_content with no relevant weibo id: lines 307-309
DetailSkip ==
    /\ pc = "detail"
    /\ br["detail"].pc = "idle"
    /\ NothingRelevant(relevant_ids["weibo"])
    /\ br' = [br EXCEPT !["detail"] =
                 [BranchIdle EXCEPT
                      !.pc = "done",
                      !.before = ConfigValue(config, config_list, relevant_ids["weibo"])]]
    /\ UNCHANGED <<config, config_list, gather, keywords, relevant_note_ids, pipeInputs,
                   pipeData, notPipeCrawl>>

\* get_weibo_detail_content up to the await of WeiboCrawler().start()
DetailBegin ==
    /\ pc = "detail"
    /\ ~NothingRelevant(relevant_ids["weibo"])
    /\ CallerBegin("detail")
    /\ UNCHANGED <<config_list, gather, keywords, relevant_note_ids, pipeInputs, pipeData,
                   notPipeCrawl>>

\* the detail crawl returns: _update_weibo_content_from_detail, then the finally
DetailReturn(details) ==
    /\ br["detail"].pc = "crawling"
    /\ LET u == UpdateFromDetail(objs["weibo"], cached_data["weibo"], details, 1, 0)
       IN  /\ objs' = [objs EXCEPT !["weibo"] = u.recs]
           /\ br' = [br EXCEPT !["detail"].pc = "done", !["detail"].out = details,
                                !["detail"].updated = u.updated_count]
    /\ CallerRestore("detail")
    /\ UNCHANGED <<gather, keywords, relevant_note_ids, pipeInputs, pc, all_data, cached_data,
                   cl, latest, snapshots, persist_runs, notPipeCrawl>>

\* the detail crawl raises: the finally block runs, the exception leaves process()
DetailRaise ==
    /\ br["detail"].pc = "crawling"
    /\ CallerRestore("detail")
    /\ br' = [br EXCEPT !["detail"].pc = "raised"]
    /\ UNCHANGED <<gather, keywords, relevant_note_ids, pipeInputs, pc, objs, all_data,
                   cached_data, cl, latest, snapshots, persist_runs, notPipeCrawl>>

\* process() goes on after get_weibo_detail_content returned
PipeAfterDetail ==
    /\ pc = "detail"
    /\ br["detail"].pc = "done"
    /\ pc' = "comments"
    /\ UNCHANGED <<objs, all_data, cached_data, relevant_ids, cl, latest, snapshots, persist_runs,
                   pipeInputs, notPipe>>

\* process() ends by the exception of get_weibo_detail_content
PipeAbort ==
    /\ pc = "detail"
    /\ br["detail"].pc = "raised"
    /\ pc' = "aborted"
    /\ UNCHANGED <<objs, all_data, cached_data, relevant_ids, cl, latest, snapshots, persist_runs,
                   pipeInputs, notPipe>>

\* an entry of a comments file: a comment with the value of the platform's id
\* expression (note_id; video_id or bvid; url or content_url or content_id) and
\* its own id, or an entry that is no JSON object
Comment(id, cid) == [isdict |-> TRUE, id |-> id, comment_id |-> cid]
NonDictComment == [isdict |-> FALSE, id |-> Missing, comment_id |-> ""]

\* a comments file that holds an object whose first non-empty list value is the
\* list of comments
WrapperFile(items) == [kind |-> "wrapper", items |-> items]

\* the loop over the comments of one file: a comment with a truthy id is
\* appended to its group; an entry that is no dict makes comment.get raise, which
\* ends the file with the comments appended so far kept
RECURSIVE CommentLoop(_)
CommentLoop(items) ==
    IF items = <<>> \/ ~Head(items).isdict THEN <<>>
    ELSE (IF Truthy(Head(items).id) THEN <<Head(items)>> ELSE <<>>)
         \o CommentLoop(Tail(items))

\* the body of the try block for one comments file: convert_ids_to_string
\* reaches the comments of an array file only (for an object it looks at the
\* object's own fields), then the shape is resolved and the comments are grouped
FileComments(f) ==
    CASE f.kind = "list" ->
             CommentLoop([i \in DOMAIN f.items |->
                 IF f.items[i].isdict /\ f.items[i].id.t = "int"
                 THEN [f.items[i] EXCEPT !.id = Str(f.items[i].id.s)]
                 ELSE f.items[i]])
      [] f.kind = "wrapper" -> CommentLoop(f.items)
      [] OTHER -> <<>>

\* load_comments for one platform: the comments appended, in load order
RECURSIVE LoadComments(_)
LoadComments(fs) ==
    IF fs = <<>> THEN <<>> ELSE FileComments(Head(fs)) \o LoadComments(Tail(fs))

\* a variant of CommentsOf that returns every comment of the platform, to test the properties against
CommentsOfMut(cs, key) == cs

\* comments_data[platform][key]: the comments appended under str(id) = key
CommentsOf(cs, key) == SelectSeq(cs, LAMBDA c : PyStr(c.id) = key)

\* merge_comments_to_data for one platform: every item Load returned gets the
\* comments grouped under str(id), or []
MergeComments(recs, loaded, cs) ==
    [i \in DOMAIN recs |->
        IF i \in Range(loaded)
        THEN [recs[i] EXCEPT !.has_comments = TRUE,
                             !.comments = CommentsOf(cs, PyStr(recs[i].id))]
        ELSE recs[i]]

\* process(): load_comments and merge_comments_to_data
PipeComments ==
    /\ pc = "comments"
    /\ objs' = [q \in PlatformSet |->
                   MergeComments(objs[q], all_data[q], LoadComments(comment_files[q]))]
    /\ pc' = "persist"
    /\ UNCHANGED <<all_data, cached_data, relevant_ids, cl, latest, snapshots, persist_runs,
                   pipeInputs, notPipe>>

\* lines 583-586: a copy of the indexed record, stamped; line 613 turns the id
\* fields of the copies into strings
OutRecord(rec, platform, id) ==
    [platform |-> platform, relevance_id |-> id,
     rec |-> [rec EXCEPT !.id = IF rec.id.t = "int" THEN Str(rec.id.s) ELSE rec.id]]

\* a variant of Collect that emits an id again when the list repeats it, to test the properties against
RECURSIVE CollectMut(_, _, _, _, _, _)
CollectMut(platform, ids, index, recs, i, acc) ==
    IF i > Len(ids) THEN acc
    ELSE CollectMut(platform, ids, index, recs, i + 1,
                    [seen |-> acc.seen \cup {<<platform, ids[i]>>},
                     out |-> IF ids[i] \in DOMAIN index
                             THEN Append(acc.out,
                                         OutRecord(recs[index[ids[i]]], platform, ids[i]))
                             ELSE acc.out])

\* lines 578-586 for one platform, from position i of its relevant-id list on
RECURSIVE Collect(_, _, _, _, _, _)
Collect(platform, ids, index, recs, i, acc) ==
    IF i > Len(ids) THEN acc
    ELSE LET id == ids[i]
             key == <<platform, id>>
         IN  IF key \in acc.seen
             THEN Collect(platform, ids, index, recs, i + 1, acc)
             ELSE Collect(platform, ids, index, recs, i + 1,
                          [seen |-> acc.seen \cup {key},
                           out |-> IF id \in DOMAIN index
                                   THEN Append(acc.out,
                                               OutRecord(recs[index[id]], platform, id))
                                   ELSE acc.out])

\* lines 574-613: all_relevant_data
RECURSIVE CollectAll(_, _, _, _, _)
CollectAll(p, rel, index, recs, acc) ==
    IF p > Len(Platforms) THEN acc.out
    ELSE CollectAll(p + 1, rel, index, recs,
                    Collect(Platforms[p], rel[Platforms[p]], index[Platforms[p]],
                            recs[Platforms[p]], 1, acc))

AllRelevantData == CollectAll(1, relevant_ids, cached_data, objs, [seen |-> {}, out |-> <<>>])

NoFile == [exists |-> FALSE, data |-> <<>>]

\* the positions of platform q's records that save_relevant_data copies
EmittedPositions(q) ==
    {cached_data[q][id] : id \in Range(relevant_ids[q]) \cap DOMAIN cached_data[q]}

\* a variant of IndexedAfterEmit where the id conversion reaches the indexed record, to test the properties against
IndexedAfterEmitMut(rec) ==
    [rec EXCEPT !.id = IF rec.id.t = "int" THEN Str(rec.id.s) ELSE rec.id]

\* lines 583-586 and 613: the stamps and the id conversion go to the .copy(), the
\* indexed record stays as it is
IndexedAfterEmit(rec) == rec

MaxPersistRuns == 2

\* save_relevant_data: both files are written only when there is something to save
SaveRelevantData ==
    /\ IF AllRelevantData # <<>>
       THEN /\ snapshots' = Append(snapshots, AllRelevantData)
            /\ latest' = [exists |-> TRUE, data |-> AllRelevantData]
       ELSE UNCHANGED <<snapshots, latest>>
    /\ objs' = [q \in PlatformSet |->
                   [i \in DOMAIN objs[q] |->
                       IF i \in EmittedPositions(q) THEN IndexedAfterEmit(objs[q][i])
                       ELSE objs[q][i]]]
    /\ persist_runs' = Append(persist_runs,
                              [mem |-> <<objs, cached_data, relevant_ids>>,
                               built |-> AllRelevantData,
                               latest |-> latest'])
    /\ UNCHANGED <<all_data, cached_data, relevant_ids, cl, pipeInputs, notPipe>>

\* process(), last step: save_relevant_data
PipePersist ==
    /\ pc = "persist"
    /\ SaveRelevantData
    /\ pc' = "done"

\* save_relevant_data called once more on the same DataPostProcessor
PersistAgain ==
    /\ pc = "done"
    /\ Len(persist_runs) < MaxPersistRuns
    /\ SaveRelevantData
    /\ UNCHANGED pc

(***************************************************************************)
(* main() of data_postprocessor.py and the tasks of its event loop         *)
(***************************************************************************)
MaxTasks == 2
TaskIds == 1..MaxTasks

\* the coroutines a task on main's loop runs: the sweep loop of an
\* ExpiringLocalCache (local_cache.py:120), or one started by a crawler
TaskKinds == {"sweep", "other"}

NoTask == [kind |-> "none", state |-> "absent"]
Task(kind, state) == [kind |-> kind, state |-> state]

\* how a task can end without being cancelled: the sweep loop has no return, it
\* ends only when _clear raises; any other coroutine may return or raise
OwnEnds(kind) == IF kind = "sweep" THEN {"failed"} ELSE {"finished", "failed"}

\* how a pending task ends once task.cancel() was called and it is awaited: the
\* sweep loop handles nothing, CancelledError ends it at its asyncio.sleep;
\* another coroutine may also catch the error and return, or raise in a handler
CancelEnds(kind) ==
    IF kind = "sweep" THEN {"cancelled"} ELSE {"cancelled", "finished", "failed"}

\* asyncio.all_tasks(loop), less the done ones and the current task (main's own
\* task is not one of the slots)
PendingTasks(ts) == {i \in DOMAIN ts : ts[i].state = "pending"}

\* a variant of CancelAndAwait that cancels the tasks and does not await them,
\* to test the properties against
CancelAndAwaitMut(ts, ends) == ts

\* task.cancel() for each collected task, then awaiting them all: each is done
\* when the await returns, ended the way ends[i] says
CancelAndAwait(ts, ends) ==
    [i \in DOMAIN ts |->
        IF i \in PendingTasks(ts) THEN Task(ts[i].kind, ends[i]) ELSE ts[i]]

\* asyncio.gather(*tasks, return_exceptions=...): what the await raises. With
\* return_exceptions the children's exceptions, CancelledError included, are
\* items of the result list; without it the first one is raised
GatherRaised(ts, ends, return_exceptions) ==
    LET bad == {i \in PendingTasks(ts) : ends[i] \in {"cancelled", "failed"}}
        first == CHOOSE i \in bad : \A j \in bad : i <= j
    IN  IF return_exceptions \/ bad = {} THEN "none"
        ELSE IF ends[first] = "cancelled" THEN "CancelledError" ELSE "Exception"

\* _cleanup_tasks: what it lets out. `except Exception` logs and swallows;
\* CancelledError is a BaseException and would pass through
CleanupRaised(ts, ends) ==
    LET raised == IF PendingTasks(ts) = {} THEN "none"
                  ELSE GatherRaised(ts, ends, TRUE)
    IN  IF raised = "Exception" THEN "none" ELSE raised

MainIdle ==
    /\ main = [pc |-> "start", process |-> "none", out |-> "none"]
    /\ tasks = [i \in TaskIds |-> NoTask]

MainInit == MainIdle

\* no event description on the command line or in the environment: main prints
\* the usage and returns before a DataPostProcessor exists
MainUsage ==
    /\ main.pc = "start"
    /\ main' = [main EXCEPT !.pc = "returned", !.out = "returned"]
    /\ UNCHANGED <<tasks, notMain>>

\* DataPostProcessor(event_description), then into the try
MainBegin ==
    /\ main.pc = "start"
    /\ main' = [main EXCEPT !.pc = "processing"]
    /\ UNCHANGED <<tasks, notMain>>

\* while process() runs, something it calls creates a task on the loop
TaskSpawn(i, kind) ==
    /\ main.pc = "processing"
    /\ tasks[i] = NoTask
    /\ tasks' = [tasks EXCEPT ![i] = Task(kind, "pending")]
    /\ UNCHANGED <<main, notMain>>

\* a task ends by itself while process() runs
TaskEnd(i, end) ==
    /\ main.pc = "processing"
    /\ tasks[i].state = "pending"
    /\ end \in OwnEnds(tasks[i].kind)
    /\ tasks' = [tasks EXCEPT ![i] = Task(tasks[i].kind, end)]
    /\ UNCHANGED <<main, notMain>>

\* process() returns or raises; either way the finally clause is next
ProcessEnd(how) ==
    /\ main.pc = "processing"
    /\ main' = [main EXCEPT !.pc = "finally", !.process = how]
    /\ UNCHANGED <<tasks, notMain>>

\* the finally clause: await _cleanup_tasks(), then main returns, or the
\* exception of process() (or one _cleanup_tasks let out) goes on
MainFinally(ends) ==
    /\ main.pc = "finally"
    /\ \A i \in TaskIds :
          ends[i] \in IF i \in PendingTasks(tasks) THEN CancelEnds(tasks[i].kind)
                      ELSE {tasks[i].state}
    /\ tasks' = IF PendingTasks(tasks) = {} THEN tasks ELSE CancelAndAwait(tasks, ends)
    /\ main' = [main EXCEPT
                  !.pc = IF CleanupRaised(tasks, ends) # "none" \/ main.process = "raised"
                         THEN "raised" ELSE "returned",
                  !.out = IF CleanupRaised(tasks, ends) # "none"
                          THEN CleanupRaised(tasks, ends)
                          ELSE IF main.process = "raised" THEN "ProcessError"
                          ELSE "returned"]
    /\ UNCHANGED notMain

(***************************************************************************)
(* Initial states                                                          *)
(***************************************************************************)
ConfigAtImport ==
    [PLATFORM |-> "xhs", KEYWORDS |-> "kw0", COOKIES |-> "", CRAWLER_TYPE |-> "search",
     HEADLESS |-> FALSE, ENABLE_GET_COMMENTS |-> FALSE,
     WEIBO_SPECIFIED_ID_LIST |-> "config_list"]

\* the config module as other code may have left it before a caller runs
Configs ==
    {[ConfigAtImport EXCEPT !["PLATFORM"] = p, !["CRAWLER_TYPE"] = c,
                            !["HEADLESS"] = h, !["ENABLE_GET_COMMENTS"] = g] :
        p \in {"xhs", "wb"}, c \in {"search", "detail"}, h \in BOOLEAN, g \in BOOLEAN}

ConfigLists == {<<>>, <<<<"9">>>>}

EmptyPerPlatform == [q \in PlatformSet |-> <<>>]

\* AICrawlerManager.__init__ and no caller running
CrawlIdle ==
    /\ config = ConfigAtImport
    /\ config_list = <<>>
    /\ br = [b \in Callers |-> BranchIdle]
    /\ keywords = <<>>
    /\ gather = GatherIdle
    /\ relevant_note_ids = EmptyPerPlatform

\* DataPostProcessor.__init__
PipeConstructed ==
    /\ pc = "load"
    /\ objs = EmptyPerPlatform
    /\ all_data = EmptyPerPlatform
    /\ cached_data = [q \in PlatformSet |-> EmptyIndex]
    /\ relevant_ids = EmptyPerPlatform
    /\ cl = ClInit
    /\ latest = NoFile
    /\ snapshots = <<>>
    /\ persist_runs = <<>>

PipeIdle ==
    /\ PipeConstructed
    /\ files = EmptyPerPlatform
    /\ comment_files = EmptyPerPlatform
    /\ llm_api_key = FALSE
    /\ filter_on = TRUE

Id(d) == Str(<<d>>)

\* the search_contents files of data/weibo/json a run may find
WeiboFiles ==
    {<<>>,
     <<ListFile(<<Item(Id("1"), Str(TMatch), Missing, Missing),
                  Item(Id("2"), Str(TOther), Missing, Missing)>>)>>,
     <<ListFile(<<Item(Id("1"), Str(TMatch), Missing, Missing)>>),
       ListFile(<<Item(Id("1"), Str(TOther), Missing, Missing),
                  Item(NoneV, Str(TMatch), Missing, Missing)>>)>>,
     <<ListFile(<<Item(IntV(<<"1">>), Str(TMatch), Missing, Missing),
                  Item(Id("1"), Str(TOther), Missing, Missing)>>)>>,
     <<CorruptFile, ObjectFile,
       ListFile(<<Item(Id("3"), Str(TMatch), Missing, Missing)>>)>>,
     <<ListFile(<<Item(Id("1"), Str(TMatch), Missing, Missing)>>),
       ListFile(<<NonDict>>)>>}

\* the search_contents files of data/bilibili/json
BilibiliFiles ==
    {<<>>,
     <<ListFile(<<Item(Id("5"), Missing, NoneV, Str(TOther)),
                  Item(Id("6"), Missing, Str(TMatch), Str(TOther))>>)>>}

\* the search_contents files of data/zhihu/json
ZhihuFiles ==
    {<<>>,
     <<ListFile(<<Item(Id("8"), Str(TOther), Str(TShort), Missing)>>)>>}

CommentFiles ==
    {[weibo |-> <<ListFile(<<Comment(IntV(<<"1">>), "c1"), Comment(Id("1"), "c2"),
                                Comment(NoneV, "c3")>>),
                  CorruptFile,
                  WrapperFile(<<Comment(IntV(<<"2">>), "c4")>>),
                  ObjectFile,
                  ListFile(<<Comment(Id("2"), "c5"), NonDictComment,
                                Comment(Id("2"), "c6")>>)>>,
      bilibili |-> <<ListFile(<<Comment(Id("6"), "c7"), Comment(Id("1"), "c8")>>)>>,
      zhihu |-> <<>>]}

\* a run of process() over the files found, the config module as at import
PipeInit ==
    /\ PipeConstructed
    /\ files \in [weibo : WeiboFiles, bilibili : BilibiliFiles, zhihu : ZhihuFiles]
    /\ comment_files \in CommentFiles
    /\ llm_api_key \in BOOLEAN
    /\ filter_on \in BOOLEAN
    /\ config = ConfigAtImport
    /\ config_list \in ConfigLists
    /\ br = [b \in Callers |-> BranchIdle]
    /\ keywords = <<>>
    /\ gather = GatherIdle
    /\ relevant_note_ids = EmptyPerPlatform

\* the callers of the crawlers, each about to run: the pipeline stands at its
\* detail stage with one weibo record loaded, the manager has its keywords
CrawlInit ==
    /\ pc = "detail"
    /\ files = EmptyPerPlatform
    /\ comment_files = EmptyPerPlatform
    /\ llm_api_key = FALSE
    /\ filter_on = TRUE
    /\ objs = [EmptyPerPlatform EXCEPT
                   !["weibo"] = <<Item(Id("1"), Str(TMatch), Missing, Missing)>>]
    /\ all_data = [EmptyPerPlatform EXCEPT !["weibo"] = <<1>>]
    /\ cached_data = [[q \in PlatformSet |-> EmptyIndex] EXCEPT
                          !["weibo"] = (<<"1">> :> 1)]
    /\ relevant_ids \in {[EmptyPerPlatform EXCEPT !["weibo"] = ids] :
                            ids \in {<<>>, <<<<"1">>>>}}
    /\ cl = ClInit
    /\ latest = NoFile
    /\ snapshots = <<>>
    /\ persist_runs = <<>>
    /\ config \in Configs
    /\ config_list \in ConfigLists
    /\ br = [b \in Callers |-> BranchIdle]
    /\ keywords \in {<<>>, <<"k1", "k2">>}
    /\ gather = GatherIdle
    /\ relevant_note_ids = EmptyPerPlatform

\* what an earlier run left in relevant_data_latest.json
OldFile ==
    [exists |-> TRUE,
     data |-> <<OutRecord(Item(Id("0"), Str(TOther), Missing, Missing), "weibo", <<"0">>)>>]

\* the in-memory states save_relevant_data is run on: an index of two weibo
\* records (one with a numeric id), one bilibili and one zhihu record, and
\* relevant-id lists that repeat ids, name unknown ids, or are empty
PersistInit ==
    /\ pc = "persist"
    /\ files = EmptyPerPlatform
    /\ comment_files = EmptyPerPlatform
    /\ llm_api_key = FALSE
    /\ filter_on = TRUE
    /\ objs = [weibo |-> <<Item(IntV(<<"1">>), Str(TMatch), Missing, Missing),
                           Item(Id("2"), Str(TOther), Missing, Missing)>>,
               bilibili |-> <<Item(Id("1"), Missing, Str(TMatch), Str(TOther))>>,
               zhihu |-> <<Item(Id("8"), Str(TOther), Str(TShort), Missing)>>]
    /\ all_data = [weibo |-> <<1, 2>>, bilibili |-> <<1>>, zhihu |-> <<1>>]
    /\ cached_data = [weibo |-> (<<"1">> :> 1) @@ (<<"2">> :> 2),
                      bilibili |-> (<<"1">> :> 1),
                      zhihu |-> (<<"8">> :> 1)]
    /\ relevant_ids \in
           [weibo : {<<>>, <<<<"1">>>>, <<<<"2">>, <<"1">>>>, <<<<"2">>, <<"2">>>>,
                     <<<<"9">>, <<"2">>>>, <<<<"1">>, <<"2">>, <<"1">>>>},
            bilibili : {<<>>, <<<<"1">>>>, <<<<"1">>, <<"1">>>>},
            zhihu : {<<>>, <<<<"8">>>>}]
    /\ cl = ClInit
    /\ latest \in {NoFile, OldFile}
    /\ snapshots = <<>>
    /\ persist_runs = <<>>
    /\ CrawlIdle

(***************************************************************************)
(* Specifications                                                          *)
(***************************************************************************)
CacheNext ==
    \/ \E k \in CacheKeys, v \in CacheValues, t \in Ttls : CacheSet(k, v, t)
    \/ \E k \in CacheKeys : CacheGet(k)
    \/ \E p \in Patterns : CacheKeysCall(p)
    \/ CacheSweep
    \/ CacheCleanup
    \/ CacheTick

InitCache == CacheInit /\ JudgeIdle /\ FallbackIdle /\ PipeIdle /\ CrawlIdle /\ ExtractIdle /\ MainIdle

SpecCache == InitCache /\ [][CacheNext]_vars

JudgeNext == \E reply \in Replies : JudgeCall(reply)

InitJudge == JudgeInit /\ CacheIdle /\ FallbackIdle /\ PipeIdle /\ CrawlIdle /\ ExtractIdle /\ MainIdle

SpecJudge == InitJudge /\ [][JudgeNext]_vars

\* one run of DataPostProcessor.process()
PipeNext ==
    \/ PipeLoad
    \/ \E reply \in PipeReplies : PipeClassifyRecord(reply)
    \/ PipeClassifyNextPlatform
    \/ PipeClassifyEnd
    \/ DetailSkip
    \/ DetailBegin
    \/ \E details \in DetailOutputs : DetailReturn(details)
    \/ DetailRaise
    \/ PipeAfterDetail
    \/ PipeAbort
    \/ PipeComments
    \/ PipePersist

InitPipe == PipeInit /\ CacheIdle /\ JudgeIdle /\ FallbackIdle /\ ExtractIdle /\ MainIdle

SpecPipe == InitPipe /\ [][PipeNext]_vars

\* no other caller is between its override and its restore
Alone(b) == \A c \in Callers \ {b} : br[c].pc = "idle"

SoloCrawlBegin(b) == Alone(b) /\ CrawlBegin(b)
SoloDetailBegin == Alone("detail") /\ DetailBegin
SoloDetailSkip == Alone("detail") /\ DetailSkip

\* the callers that override config, one at a time
CrawlNext ==
    \/ \E b \in Callers \ {"detail"} : SoloCrawlBegin(b)
    \/ \E ids \in NoteIdLists : CrawlWeiboReturn(ids)
    \/ \E b \in {"bilibili", "zhihu"} : CrawlSearchReturn(b)
    \/ \E b \in {"bilibili", "zhihu"}, ids \in NoteIdLists : CrawlJudged(b, ids)
    \/ \E b \in Callers \ {"detail"} : CrawlRaise(b)
    \/ SoloDetailBegin
    \/ SoloDetailSkip
    \/ \E details \in DetailOutputs : DetailReturn(details)
    \/ DetailRaise
    \/ \E b \in Callers : CallerAck(b)

InitCrawl == CrawlInit /\ CacheIdle /\ JudgeIdle /\ FallbackIdle /\ ExtractIdle /\ MainIdle

SpecCrawl == InitCrawl /\ [][CrawlNext]_vars

\* crawl_all_platforms: the keywords, then crawl_weibo and crawl_bilibili side by side
GatherNext ==
    \/ \E kws \in {<<>>, <<"k1", "k2">>} : GatherBegin(kws)
    \/ \E i \in DOMAIN GatherBranches : GatherCrawlBegin(GatherBranches[i])
    \/ \E ids \in NoteIdLists : CrawlWeiboReturn(ids)
    \/ CrawlSearchReturn("bilibili")
    \/ \E ids \in NoteIdLists : CrawlJudged("bilibili", ids)
    \/ \E i \in DOMAIN GatherBranches : CrawlRaise(GatherBranches[i])
    \/ GatherReturn

InitGather == CrawlInit /\ CacheIdle /\ JudgeIdle /\ FallbackIdle /\ ExtractIdle /\ MainIdle

SpecGather == InitGather /\ [][GatherNext]_vars

PersistNext ==
    \/ PipePersist
    \/ PersistAgain

InitPersist == PersistInit /\ CacheIdle /\ JudgeIdle /\ FallbackIdle /\ ExtractIdle /\ MainIdle

SpecPersist == InitPersist /\ [][PersistNext]_vars

FallbackNext == FallbackCall

InitFallback == FallbackInit /\ CacheIdle /\ JudgeIdle /\ PipeIdle /\ CrawlIdle /\ ExtractIdle /\ MainIdle

SpecFallback == InitFallback /\ [][FallbackNext]_vars

ExtractNext == ExtractCall

InitExtract ==
    ExtractInit /\ CacheIdle /\ JudgeIdle /\ FallbackIdle /\ PipeIdle /\ CrawlIdle /\ MainIdle

SpecExtract == InitExtract /\ [][ExtractNext]_vars

MainNext ==
    \/ MainUsage
    \/ MainBegin
    \/ \E i \in TaskIds, kind \in TaskKinds : TaskSpawn(i, kind)
    \/ \E i \in TaskIds, end \in {"finished", "failed"} : TaskEnd(i, end)
    \/ \E how \in {"returned", "raised"} : ProcessEnd(how)
    \/ \E ends \in [TaskIds -> {"absent", "finished", "failed", "cancelled"}] :
          MainFinally(ends)

InitMain ==
    MainInit /\ CacheIdle /\ JudgeIdle /\ FallbackIdle /\ PipeIdle /\ CrawlIdle /\ ExtractIdle

SpecMain == InitMain /\ [][MainNext]_vars

(***************************************************************************)
(* Claims                                                                  *)
(***************************************************************************)

RECURSIVE DedupSeq(_)
DedupSeq(ids) ==
    IF ids = <<>> THEN <<>>
    ELSE LET front == DedupSeq(SubSeq(ids, 1, Len(ids) - 1))
             last == ids[Len(ids)]
         IN  IF last \in Range(front) THEN front ELSE Append(front, last)

KeysOf(q, ids) == [i \in DOMAIN ids |-> <<q, ids[i]>>]

RetainedKeys ==
    KeysOf("weibo", DedupSeq(cl.local["weibo"]))
        \o KeysOf("bilibili", DedupSeq(cl.local["bilibili"]))
        \o KeysOf("zhihu", DedupSeq(cl.local["zhihu"]))

\* C2 (SpecPipe): at the end of a run the output Persist wrote holds exactly the
\* records Classify retained, one per (platform, id), in Classify order per
\* platform, each tagged with its platform and with relevance_id equal to its id.
C2_PersistWritesExactlyRetained ==
    pc = "done" =>
        /\ [i \in DOMAIN latest.data |->
               <<latest.data[i].platform, latest.data[i].relevance_id>>] = RetainedKeys
        /\ \A i \in DOMAIN latest.data :
               PyStr(latest.data[i].rec.id) = latest.data[i].relevance_id

\* the positions of the loaded entries of platform q whose id is truthy and has
\* the string form k
Occurrences(q, k) ==
    {i \in DOMAIN objs[q] : /\ objs[q][i].isdict
                            /\ Truthy(objs[q][i].id)
                            /\ PyStr(objs[q][i].id) = k}

Min(S) == CHOOSE x \in S : \A y \in S : x <= y

\* C3 (SpecPipe): when the loaded files hold an id more than once (ids that differ
\* only in representation counting as the same id), the returned list and the
\* index each hold exactly one record for it, the first occurrence.
C3_LoadKeepsFirstOccurrenceOnly ==
    pc # "load" =>
        \A q \in PlatformSet :
            \A k \in {PyStr(objs[q][i].id) : i \in DOMAIN objs[q]} :
                Cardinality(Occurrences(q, k)) > 1 =>
                    /\ k \in DOMAIN cached_data[q]
                    /\ cached_data[q][k] = Min(Occurrences(q, k))
                    /\ Occurrences(q, k) \cap Range(all_data[q])
                           = {Min(Occurrences(q, k))}

\* the text judge_relevance assembled for the call under check
JudgedText == AssembleText(j_in.content, j_in.platform).v.s

ReplyFailed == j_out.called /\ j_out.reply.kind \in {"error", "nonstr", "badjson", "nondict"}

C5_SweepRemovesExpired ==
    cron_task \in {"sleeping", "failed"} =>
        \A i \in DOMAIN cache_container :
            ~(now > cache_container[i].expire + CronInterval)

\* C6 (SpecCache): keys("*") returns exactly the keys whose most recent set has not expired at
\* call time.
C6_KeysStarExactlyLive ==
    (cache_ret.op = "keys" /\ cache_ret.key = <<"*">>) =>
        Range(cache_ret.ret) =
            {k \in CacheKeys : /\ last_set[k].isset
                               /\ ~Expired(last_set[k].expire, cache_ret.at)}

\* C7 (SpecCrawl): a caller that ran on its own and has returned or raised left
\* every field of config with the value it had before the call (the id list
\* compared by its content).
C7_CallersRestoreConfig ==
    \A b \in Callers :
        br[b].pc \in {"done", "raised"} =>
            ConfigValue(config, config_list, relevant_ids["weibo"]) = br[b].before

\* C7 witness: the detail crawl raised, after config had been overridden in
\* fields whose prior values differ from the override, the id list among them.
C7_Witness ==
    /\ br["detail"].pc = "raised"
    /\ br["detail"].before["HEADLESS"] = FALSE
    /\ br["detail"].before["PLATFORM"] = "xhs"
    /\ br["detail"].before["WEIBO_SPECIFIED_ID_LIST"] = <<<<"9">>>>

\* the loaded record the classify loop met at position i of platform q
RecordAt(q, i) == objs[q][all_data[q][i]]

\* Classify has just ended: self.relevant_ids holds its result
ClassifyDone == pc = "detail" /\ br["detail"].pc = "idle"

\* C8 (SpecPipe): after Classify a loaded record's id is in its platform's
\* relevant-id list if and only if its verdict is relevant or filtering is off;
\* with filtering off every loaded record is in the list.
C8_RetainedIffRelevantOrFilterOff ==
    ClassifyDone =>
        \A q \in PlatformSet :
            \A i \in DOMAIN all_data[q] :
                (PyStr(RecordAt(q, i).id) \in Range(relevant_ids[q]))
                    <=> \/ ~filter_on
                        \/ /\ ~cl.log[q][i].res.raised
                           /\ cl.log[q][i].res.is_relevant = "True"

\* whether the record judged at position i of platform q was kept, by its own
\* outcome alone
KeptAt(q, i) ==
    /\ ~cl.log[q][i].res.raised
    /\ cl.log[q][i].res.is_relevant = "True" \/ ~filter_on

\* the ids of the records of platform q kept among the first n judged, in order
RECURSIVE KeptIds(_, _)
KeptIds(q, n) ==
    IF n = 0 THEN <<>>
    ELSE IF KeptAt(q, n) THEN Append(KeptIds(q, n - 1), PyStr(RecordAt(q, n).id))
    ELSE KeptIds(q, n - 1)

C10_JudgeNeverRaises ==
    j_out.state # "pending" => (j_out.state = "returned" /\ ~j_out.res.raised)

\* the value judge_relevance assembled for the call under check, when the
\* assembly did not raise
Assembled == AssembleText(j_in.content, j_in.platform)

\* the assembled text is empty or has fewer than 10 characters
AssembledShort ==
    /\ ~Assembled.raised
    /\ \/ ~Truthy(Assembled.v)
       \/ Assembled.v.t = "str" /\ Len(Assembled.v.s) < 10

GuardVerdict ==
    /\ j_out.state = "returned"
    /\ ~j_out.called
    /\ j_out.res.is_relevant = "False"
    /\ j_out.res.score = Frac(0, 1)

OverlapCount ==
    Cardinality(Tokens(fb_in.event_description) \cap Tokens(fb_in.content_text))
EventCount == Cardinality(Tokens(fb_in.event_description))

\* C12 (SpecFallback): the fallback's score is |event_tokens /\ content_tokens| /
\* |event_tokens| over whitespace tokens (0.0 when the event has no tokens), lies
\* in [0,1], and is_relevant is true exactly when score > 0.2.
C12_FallbackScoreIsTokenOverlap ==
    fb_out.state = "returned" =>
        LET sc == fb_out.res.score
        IN  /\ IF EventCount = 0 THEN sc.num = 0
               ELSE sc.num * EventCount = OverlapCount * sc.den
            /\ 0 <= sc.num /\ sc.num <= sc.den /\ sc.den > 0
            /\ (fb_out.res.is_relevant = "True") <=> (sc.num * 5 > sc.den)

\* C13 (SpecFallback): the same string as content and as event description scores
\* 1.0, Chinese commas and full stops included (taken here only for strings that
\* hold at least one token); an empty content scores 0.0 and is not relevant,
\* whatever the event description.
C13_FallbackIdenticalScoresOne ==
    fb_out.state = "returned" =>
        /\ (/\ fb_in.content_text = fb_in.event_description
            /\ Tokens(fb_in.content_text) # {})
               => fb_out.res.score.num = fb_out.res.score.den
        /\ fb_in.content_text = <<>> =>
               (fb_out.res.score.num = 0 /\ fb_out.res.is_relevant = "False")

\* the ids of a relevant-id list that contribute a record: first occurrences
\* that are keys of the index
Contributing(ids, index) == SelectSeq(DedupSeq(ids), LAMBDA id : id \in DOMAIN index)

\* the output sequence of a save_relevant_data call as the property describes it,
\* from the memory the call started on; Conv is what the copy does to a record
Described(run, Conv(_)) ==
    LET part(q) ==
            LET ids == Contributing(run.mem[3][q], run.mem[2][q])
            IN  [i \in DOMAIN ids |->
                    [platform |-> q, relevance_id |-> ids[i],
                     rec |-> Conv(run.mem[1][q][run.mem[2][q][ids[i]]])]]
    IN  part("weibo") \o part("bilibili") \o part("zhihu")

SameRecord(rec) == rec
IdAsString(rec) == [rec EXCEPT !.id = Str(PyStr(rec.id))]

\* C14 (SpecPersist, as stated): Persist emits, for the platforms in the order
\* weibo, bilibili, zhihu and the ids of each relevant-id list in list order, one
\* record per id that is a key of the index and was not emitted before, each a
\* copy of the indexed record with platform and relevance_id added.
C14_PersistEmitsStampedCopies ==
    \A r \in DOMAIN persist_runs :
        persist_runs[r].built = Described(persist_runs[r], SameRecord)

\* C14 (SpecPersist, amended): the same, each emitted record being a copy of the
\* indexed record with its id turned into a string and with platform and
\* relevance_id added.
C14_PersistEmitsStampedStringIdCopies ==
    \A r \in DOMAIN persist_runs :
        persist_runs[r].built = Described(persist_runs[r], IdAsString)

\* C14 witness: a call on lists that repeat ids in two platforms wrote the three
\* records, weibo's before bilibili's.
C14_Witness ==
    /\ persist_runs # <<>>
    /\ relevant_ids["weibo"] = <<<<"1">>, <<"2">>, <<"1">>>>
    /\ relevant_ids["bilibili"] = <<<<"1">>, <<"1">>>>
    /\ relevant_ids["zhihu"] = <<>>
    /\ Len(latest.data) = 3
    /\ latest.data[3].platform = "bilibili"

\* C15 (SpecPersist): after every Persist, an empty relevant set included, the
\* latest file holds exactly the output sequence of this run and the same content
\* as this run's snapshot file.
C15_LatestHoldsThisRun ==
    persist_runs # <<>> =>
        /\ latest.exists
        /\ latest.data = persist_runs[Len(persist_runs)].built
        /\ snapshots # <<>>
        /\ snapshots[Len(snapshots)] = latest.data

C19_SetSupersedes ==
    /\ \A i \in DOMAIN cache_container :
           LET e == cache_container[i]
           IN  /\ last_set[e.key].isset
               /\ e.value = last_set[e.key].value
               /\ e.expire = last_set[e.key].expire
    /\ cache_ret.op = "set" =>
           /\ last_set[cache_ret.key].isset
           /\ last_set[cache_ret.key].expire >= now =>
                  cache_ret.key \in Range(DictKeys(cache_container))

\* C19 witness: a set with a shorter ttl replaced an entry that had a later
\* expiry and another value; the container holds the new value and expiry.
C19_Witness ==
    /\ cache_ret.op = "set"
    /\ cache_ret.over
    /\ \E i \in DOMAIN cache_container :
           /\ cache_container[i].key = cache_ret.key
           /\ cache_container[i].expire = last_set[cache_ret.key].expire
           /\ cache_container[i].value = last_set[cache_ret.key].value

\* the pattern with every '*' left out
RECURSIVE Unstarred(_)
Unstarred(p) ==
    IF p = <<>> THEN <<>>
    ELSE IF Head(p) = "*" THEN Unstarred(Tail(p))
    ELSE <<Head(p)>> \o Unstarred(Tail(p))

\* k holds p as a run of consecutive characters
Contains(k, p) ==
    \E start \in 1..(Len(k) + 1) :
        \A j \in 1..Len(p) : start + j - 1 <= Len(k) /\ k[start + j - 1] = p[j]

\* C20 (SpecCache): keys(pattern), for a pattern other than the bare "*", returns
\* exactly the keys stored in the cache (expired or not) that contain the
\* pattern, its '*' characters removed, as a substring, each once. (Nothing
\* changes the container while the result of a keys call is the last result,
\* so the container is the one the call read.)
C20_KeysSubstringFilter ==
    (cache_ret.op = "keys" /\ cache_ret.key # <<"*">>) =>
        /\ Range(cache_ret.ret) =
               {k \in Range(DictKeys(cache_container)) : Contains(k, Unstarred(cache_ret.key))}
        /\ Len(cache_ret.ret) = Cardinality(Range(cache_ret.ret))

\* C20 witness: with both keys in the cache, keys("b") returned the one key that
\* holds "b", which does not begin with it.
C20_Witness ==
    /\ cache_ret.op = "keys"
    /\ cache_ret.key = <<"b">>
    /\ Range(DictKeys(cache_container)) = {<<"a">>, <<"a", "b">>}
    /\ cache_ret.ret = <<<<"a", "b">>>>

\* the comment ids of the comments in cs that carry the id key, in order
RECURSIVE IdsUnder(_, _)
IdsUnder(cs, key) ==
    IF cs = <<>> THEN <<>>
    ELSE IF PyStr(Head(cs).id) = key
         THEN <<Head(cs).comment_id>> \o IdsUnder(Tail(cs), key)
         ELSE IdsUnder(Tail(cs), key)

\* the comment ids found in the comments files of platform q
FileCommentIds(q) ==
    UNION {{comment_files[q][f].items[j].comment_id :
               j \in DOMAIN comment_files[q][f].items} : f \in DOMAIN comment_files[q]}

\* C17 (SpecPipe): after the comment merge every record Load returned has a
\* comments field; it holds exactly the loaded comments of the record's platform
\* whose id equals the record's id (as strings), in load order, and the empty
\* list when there is none; no attached comment has another id or comes from
\* another platform's files.
C17_CommentsAttachedByPlatformAndId ==
    pc \in {"persist", "done"} =>
        \A q \in PlatformSet : \A i \in Range(all_data[q]) :
            LET rec == objs[q][i]
            IN  /\ rec.has_comments
                /\ [j \in DOMAIN rec.comments |-> rec.comments[j].comment_id] =
                       IdsUnder(LoadComments(comment_files[q]), PyStr(rec.id))
                /\ \A j \in DOMAIN rec.comments :
                       /\ PyStr(rec.comments[j].id) = PyStr(rec.id)
                       /\ rec.comments[j].comment_id \in FileCommentIds(q)

\* C17 witness: weibo record "1" got its two comments, weibo record "2" one from
\* an array file and one from a wrapper file, and of the bilibili records one got
\* the comment of its id and the other the empty list, although a bilibili
\* comment carries the id "1".
C17_Witness ==
    /\ pc = "persist"
    /\ \E i \in Range(all_data.weibo) :
           /\ objs.weibo[i].id = Id("1")
           /\ Len(objs.weibo[i].comments) = 2
    /\ \E i \in Range(all_data.weibo) :
           /\ objs.weibo[i].id = Id("2")
           /\ Len(objs.weibo[i].comments) = 2
    /\ \E i \in Range(all_data.bilibili) :
           /\ objs.bilibili[i].has_comments
           /\ objs.bilibili[i].comments = <<>>
    /\ \E i \in Range(all_data.bilibili) :
           /\ objs.bilibili[i].id = Id("6")
           /\ Len(objs.bilibili[i].comments) = 1

\* C18 (SpecPipe): a content file that cannot be read, is corrupt or holds
\* entries that are no record objects costs only its own records: after Load,
\* every record with an id in a well-formed array file, of any platform, is in
\* the returned list and in the index.
C18_LoadFailureIsolatedToFile ==
    pc # "load" =>
        \A q \in PlatformSet : \A f \in DOMAIN files[q] :
            LET file == files[q][f]
            IN  (file.kind = "list" /\ \A j \in DOMAIN file.items : file.items[j].isdict) =>
                    \A j \in DOMAIN file.items :
                        Truthy(file.items[j].id) =>
                            /\ PyStr(file.items[j].id) \in DOMAIN cached_data[q]
                            /\ \E i \in Range(all_data[q]) :
                                   PyStr(objs[q][i].id) = PyStr(file.items[j].id)

\* the sweep task exists and is not done
TaskPending == cron_task = "sleeping"

\* C21 (SpecCache): when cleanup() has returned the sweep task is finished or
\* there is none, and cleanup raised nothing; from then on no step runs a sweep
\* pass or brings a task back, and a cleanup of a cache whose task is finished
\* or absent changes neither the task nor the container.
C21_CleanupEndsSweep ==
    [][/\ cache_ret'.op = "cleanup" => (~TaskPending' /\ cache_ret'.ret = None)
       /\ ~TaskPending =>
              /\ cron_task' = cron_task
              /\ cache_ret'.op = "sweep" => cache_ret' = cache_ret
              /\ cache_ret'.op = "cleanup" => cache_container' = cache_container]_vars

\* C21 witness: the task was cancelled by cleanup, an entry set afterwards has
\* expired and the task's next wake is past, and the entry is still there.
C21_Witness ==
    /\ cron_task = "cancelled"
    /\ cache_ret.op = "set"
    /\ next_wake < now
    /\ \E i \in DOMAIN cache_container :
           /\ cache_container[i].key = cache_ret.key
           /\ Expired(cache_container[i].expire, now)

\* C22 (SpecCache): no call creates a sweep task: the task of a cache is the one
\* its constructor started, so a cache with no task, or with a task that has
\* ended, never has a pending task again.
C22_AtMostOneSweepTask ==
    [][/\ cron_task = "none" => cron_task' = "none"
       /\ cron_task \in {"failed", "cancelled"} => cron_task' = cron_task
       /\ cron_task = "sleeping" => cron_task' \in {"sleeping", "failed", "cancelled"}]_vars

\* C22 witness: the task ended by its own error and cleanup was called after
\* that; the cache still has the ended task and no other.
C22_Witness ==
    /\ cron_task = "failed"
    /\ cache_ret.op = "cleanup"
    /\ now > next_wake

\* C29 (SpecCache): a pass of the sweep task leaves no expired entry in the
\* container and leaves the task pending; the task ends by cancellation only.
C29_SweepPassRemovesAllAndGoesOn ==
    /\ cron_task \in {"none", "sleeping", "cancelled"}
    /\ cache_ret.op = "sweep" =>
           \A i \in DOMAIN cache_container :
               ~Expired(cache_container[i].expire, cache_ret.at)

\* C30 (SpecCache): after a get of a key whose latest set has expired the key is
\* not in the container and keys("*") does not list it.
C30_GetEvictsExpired ==
    (/\ cache_ret.op = "get"
     /\ last_set[cache_ret.key].isset
     /\ Expired(last_set[cache_ret.key].expire, cache_ret.at)) =>
        /\ IndexOf(cache_container, cache_ret.key) = 0
        /\ cache_ret.key \notin Range(KeysResult(cache_container, <<"*">>))

\* C23 (SpecExtract): whatever path extract_keywords takes, what it returns
\* has at most max_keywords elements.
C23_AtMostMaxKeywords ==
    ex_out.state = "returned" => Len(ex_out.res.s) <= ex_in.max_keywords

\* C23 witness: the model path, the delimiter-split path and the no-credential
\* path each had more keywords than max_keywords to return; here the model
\* reply held four keywords and two were returned.
C23_Witness ==
    /\ ex_out.state = "returned"
    /\ ex_out.called
    /\ ex_in.reply.keywords = ModelKeywords
    /\ ex_in.max_keywords = 2
    /\ ex_out.res = ListV(<<<<"k", "1">>, <<"k", "2">>>>)

\* C24 (SpecExtract): extract_keywords never raises and what it returns is a list,
\* for every outcome of the remote call.
C24_AlwaysReturnsAList ==
    /\ ex_out.state # "raised"
    /\ ex_out.state = "returned" => ex_out.res.t = "list"

\* the characters the description is to be split on: comma, Chinese comma, and
\* the period in either form
IsDelimiter(ch) == ch \in {",", CnComma, ".", CnStop}

\* the pieces of s between delimiters, in order
RECURSIVE PiecesOf(_)
PiecesOf(s) ==
    IF \A i \in DOMAIN s : ~IsDelimiter(s[i]) THEN <<s>>
    ELSE LET i == CHOOSE k \in DOMAIN s :
                      IsDelimiter(s[k]) /\ \A j \in 1..(k - 1) : ~IsDelimiter(s[j])
         IN  <<SubSeq(s, 1, i - 1)>> \o PiecesOf(SubSeq(s, i + 1, Len(s)))

\* s without the spaces at its ends
Trimmed(s) ==
    IF \A i \in DOMAIN s : s[i] = " " THEN <<>>
    ELSE LET first == CHOOSE i \in DOMAIN s : s[i] # " " /\ \A j \in 1..(i - 1) : s[j] = " "
             last == CHOOSE i \in DOMAIN s : s[i] # " " /\ \A j \in (i + 1)..Len(s) : s[j] = " "
         IN  SubSeq(s, first, last)

\* the primary path failed: the call raised, or the reply did not parse as JSON
ExtractPrimaryFailed ==
    /\ ex_out.called
    /\ \/ ex_in.reply.kind = "error"
       \/ ex_in.reply.kind = "text" /\ StripFence(ex_in.reply.text) # <<Doc>>

\* C25 (SpecExtract): when the remote call errors or its reply does not parse,
\* the keywords returned are the pieces of the description between commas,
\* Chinese commas and periods, trimmed, the empty ones dropped, in order (the
\* first max_keywords of them).
C25_FallbackSplitsOnThreeDelimiters ==
    (ex_out.state = "returned" /\ ExtractPrimaryFailed) =>
        LET pieces == PiecesOf(ex_in.event_description)
            kept == SelectSeq([i \in DOMAIN pieces |-> Trimmed(pieces[i])],
                              LAMBDA k : k # <<>>)
        IN  ex_out.res = ListV(SubSeq(kept, 1, Min({Len(kept), ex_in.max_keywords})))

\* the k-th run of non-space characters of s
WordAt(s, k) ==
    LET starts == {i \in DOMAIN s : s[i] # " " /\ (i = 1 \/ s[i - 1] = " ")}
        from == CHOOSE i \in starts : Cardinality({j \in starts : j < i}) = k - 1
        to == CHOOSE j \in from..Len(s) :
                  /\ \A m \in from..j : s[m] # " "
                  /\ j = Len(s) \/ s[j + 1] = " "
    IN  SubSeq(s, from, to)

WordCount(s) == Cardinality({i \in DOMAIN s : s[i] # " " /\ (i = 1 \/ s[i - 1] = " ")})

\* C26 (SpecExtract): with no credential extract_keywords makes no remote call
\* and returns the first max_keywords whitespace-separated words of the
\* description, in order.
C26_NoCredentialWhitespaceTokens ==
    (ex_out.state # "pending" /\ ~ex_in.api_key) =>
        /\ ex_out.state = "returned"
        /\ ~ex_out.called
        /\ ex_out.res.t = "list"
        /\ Len(ex_out.res.s) = Min({WordCount(ex_in.event_description), ex_in.max_keywords})
        /\ \A k \in DOMAIN ex_out.res.s :
               ex_out.res.s[k] = WordAt(ex_in.event_description, k)

\* C26 witness: no credential, a description of four words with a double space
\* and punctuation-free text, max_keywords 2: the first two words came back.
C26_Witness ==
    /\ ex_out.state = "returned"
    /\ ~ex_in.api_key
    /\ ~ex_out.called
    /\ WordCount(ex_in.event_description) = 4
    /\ ex_in.max_keywords = 2
    /\ ex_out.res = ListV(<<<<"a", "a">>, <<"b", "b">>>>)

\* C27 (SpecGather): crawl_all_platforms does not raise, and when it has
\* returned every branch has ended: the result of a branch that returned is in
\* the results and is the list the branch stored in relevant_note_ids, whatever
\* happened to the other branch, and a branch that raised appears in the results
\* as its exception.
C27_FanOutFailureIsolated ==
    /\ gather.pc # "raised"
    /\ gather.pc = "returned" =>
           \A i \in DOMAIN GatherBranches :
               LET b == GatherBranches[i]
               IN  /\ br[b].pc \in {"done", "raised"}
                   /\ br[b].pc = "done" =>
                          gather.results[i] = ListV(relevant_note_ids[b])
                   /\ br[b].pc = "raised" => gather.results[i] = ExceptionV

\* C27 witness: crawl_weibo raised, crawl_bilibili returned two ids; the results
\* hold the exception and the two ids, which are in relevant_note_ids too.
C27_Witness ==
    /\ gather.pc = "returned"
    /\ br["weibo"].pc = "raised"
    /\ br["bilibili"].pc = "done"
    /\ relevant_note_ids["bilibili"] = <<<<"1">>, <<"2">>>>
    /\ gather.results = <<ExceptionV, ListV(<<<<"1">>, <<"2">>>>)>>

\* C28: once main has run process() and is over, whether process() returned or
\* raised, no task of the loop is still pending, and what main lets out is its
\* return or the exception of process(), never a task's cancellation error
C28_ShutdownLeavesNoPendingTask ==
    (main.pc \in {"returned", "raised"} /\ main.process # "none") =>
        /\ PendingTasks(tasks) = {}
        /\ main.out = IF main.process = "raised" THEN "ProcessError" ELSE "returned"

\* process() raised with a sweep task asleep and another task pending: both
\* were cancelled and awaited, one ended cancelled and one failed in a handler
C28_Witness ==
    /\ main.pc = "raised"
    /\ main.process = "raised"
    /\ \E i, j \in TaskIds :
          /\ tasks[i] = Task("sweep", "cancelled")
          /\ tasks[j] = Task("other", "failed")

\* the entries the container holds for a key
EntriesOf(c, key) == {i \in DOMAIN c : c[i].key = key}

\* C31 (SpecCache): however sets on one key, gets and sweep passes interleave,
\* the container holds at most one entry for the key and it is the (value,
\* expiry) pair of the most recently executed set; while that set is the last
\* operation its entry is in the container; and a get or a set of any key can
\* run in every state, it does not wait for another operation.
C31_LastWriteWins ==
    \A k \in CacheKeys :
        /\ Cardinality(EntriesOf(cache_container, k)) <= 1
        /\ \A i \in EntriesOf(cache_container, k) :
               /\ last_set[k].isset
               /\ cache_container[i].value = last_set[k].value
               /\ cache_container[i].expire = last_set[k].expire
        /\ (cache_ret.op = "set" /\ cache_ret.key = k) =>
               EntriesOf(cache_container, k) # {}
        /\ ENABLED CacheGet(k)
        /\ \A v \in CacheValues, t \in Ttls : ENABLED CacheSet(k, v, t)

\* C31 witness: a sweep pass ran and deleted an expired entry, and after it a
\* set replaced the entry another set had written for the same key with
\* another value and a later expiry; the container holds the later set's pair.
C31_Witness ==
    /\ cron_task = "failed"
    /\ cache_ret.op = "set"
    /\ cache_ret.over
    /\ \E i \in EntriesOf(cache_container, cache_ret.key) :
           /\ cache_container[i].value = last_set[cache_ret.key].value
           /\ cache_container[i].expire = last_set[cache_ret.key].expire

\* the entry c holds for key, or NeverSet when it holds none
EntryOf(c, key) ==
    IF IndexOf(c, key) = 0 THEN NeverSet
    ELSE [isset |-> TRUE, value |-> c[IndexOf(c, key)].value,
          expire |-> c[IndexOf(c, key)].expire]

\* C40 (SpecCache): no step deletes or alters an entry whose expiry has not
\* passed, other than a set of that entry's key; and a get or a set of a key
\* leaves the entry of every other key, expired or not, as it was.
C40_LiveEntriesKept ==
    [][\A k \in CacheKeys :
          LET e == EntryOf(cache_container, k)
              setK == cache_ret'.op = "set" /\ cache_ret'.key = k
          IN  /\ (e.isset /\ e.expire >= now /\ ~setK) =>
                     EntryOf(cache_container', k) = e
              /\ (cache_ret'.op \in {"get", "set"} /\ cache_ret'.key # k) =>
                     EntryOf(cache_container', k) = e
      ]_vars

\* C40 witness: a sweep pass deleted an expired entry and raised, and the
\* entry of the other key, not yet expired, is still in the container.
C40_Witness ==
    /\ cache_ret.op = "sweep"
    /\ cron_task = "failed"
    /\ \E k \in CacheKeys :
           /\ last_set[k].isset
           /\ Expired(last_set[k].expire, now)
           /\ EntriesOf(cache_container, k) = {}
    /\ \E i \in DOMAIN cache_container :
           /\ cache_container[i].expire >= now
           /\ cache_container[i].value # None

\* a comments file that parses to an array, or to a wrapper around one, whose
\* entries are all comment objects
WellFormed(f) ==
    /\ f.kind \in {"list", "wrapper"}
    /\ \A i \in DOMAIN f.items : f.items[i].isdict

\* a comment as a flat array file yields it: its id a string
AsFlat(c) == IF c.id.t = "int" THEN [c EXCEPT !.id = Str(c.id.s)] ELSE c

\* the comments expected of a list of files: of each well-formed file, flat or
\* wrapped alike, the comments that carry an id; of any other file, none
RECURSIVE ExpectedComments(_)
ExpectedComments(fs) ==
    IF fs = <<>> THEN <<>>
    ELSE (IF WellFormed(Head(fs))
          THEN SelectSeq([i \in DOMAIN Head(fs).items |-> AsFlat(Head(fs).items[i])],
                         LAMBDA c : Truthy(c.id))
          ELSE <<>>)
         \o ExpectedComments(Tail(fs))

\* C32 (SpecPipe): after the comments were loaded and merged, every loaded
\* record holds the comments of its id from every well-formed comments file of
\* its platform, the same whether the file is a flat array or a wrapper around
\* the array, and nothing from a file that is corrupt or holds an entry that is
\* no comment object.
C32_CommentFilesBothShapesAndSkips ==
    pc \in {"persist", "done"} =>
        \A q \in PlatformSet : \A i \in Range(all_data[q]) :
            objs[q][i].comments =
                CommentsOf(ExpectedComments(comment_files[q]), PyStr(objs[q][i].id))

\* the ids (as strings) of the records Load returned for platform q, in load order
LoadOrder(q) == [i \in DOMAIN all_data[q] |-> PyStr(RecordAt(q, i).id)]

\* a is b with some elements left out
RECURSIVE IsSubsequence(_, _)
IsSubsequence(a, b) ==
    IF a = <<>> THEN TRUE
    ELSE IF b = <<>> THEN FALSE
    ELSE IF Head(a) = Head(b) THEN IsSubsequence(Tail(a), Tail(b))
    ELSE IsSubsequence(a, Tail(b))

\* C33 (SpecPipe): after Classify each platform's relevant-id list is a
\* subsequence of the platform's load order, repeats no id, and holds keys of
\* the platform's index only.
C33_RelevantIdsOrderedUniqueIndexed ==
    ClassifyDone =>
        \A q \in PlatformSet :
            /\ IsSubsequence(relevant_ids[q], LoadOrder(q))
            /\ \A i, j \in DOMAIN relevant_ids[q] :
                   relevant_ids[q][i] = relevant_ids[q][j] => i = j
            /\ \A i \in DOMAIN relevant_ids[q] :
                   relevant_ids[q][i] \in DOMAIN cached_data[q]

\* the detail stage is about to run with no relevant weibo id
DetailNothingToDo ==
    /\ pc = "detail"
    /\ br["detail"].pc = "idle"
    /\ relevant_ids["weibo"] = <<>>

\* a step that changes no config field, not the list config names, no record
\* and no relevant-id list, and does not start the crawler
DetailUntouched ==
    /\ config' = config
    /\ config_list' = config_list
    /\ objs' = objs
    /\ relevant_ids' = relevant_ids
    /\ br'["detail"].pc \in {"idle", "done"}

\* a step in which the detail crawl returns having left no detail output
DetailNoOutput ==
    /\ br["detail"].pc = "crawling"
    /\ br'["detail"].pc = "done"
    /\ br'["detail"].out = <<>>

\* C34 (SpecPipe): with no relevant weibo id the detail stage does nothing: its
\* step changes no field of config, not the list config names, no record and no
\* relevant-id list, and the crawler is not started; and when the crawl ran and
\* left no detail output, the stage can end by returning and that return
\* changes no record.
C34_DetailSkippedOrNoOutput ==
    /\ [](br["detail"].pc = "crawling" => ENABLED DetailReturn(<<>>))
    /\ [][(DetailNothingToDo => DetailUntouched)
             /\ (DetailNoOutput => (objs' = objs))]_vars

\* C34 witness: weibo records were loaded and none was retained; the detail
\* stage ended without a crawl, config as at import.
C34_Witness ==
    /\ pc = "detail"
    /\ br["detail"].pc = "done"
    /\ br["detail"].saved = <<>>
    /\ all_data["weibo"] # <<>>
    /\ relevant_ids["weibo"] = <<>>
    /\ config = ConfigAtImport

\* the detail entries that carry an id and a content and whose id is a key of
\* the weibo index, as positions of the detail output d
DetailHits(d, index) ==
    {j \in DOMAIN d : /\ Truthy(d[j].note_id)
                      /\ Truthy(d[j].content)
                      /\ PyStr(d[j].note_id) \in DOMAIN index}

\* those of them that are for the record at position p, before entry n
DetailHitsFor(d, index, p, n) ==
    {j \in DetailHits(d, index) : j < n /\ index[PyStr(d[j].note_id)] = p}

Max(S) == CHOOSE x \in S : \A y \in S : y <= x

\* the content of the record at position p when entry n of d is reached
ContentBefore(recs, d, index, p, n) ==
    IF DetailHitsFor(d, index, p, n) = {} THEN DictGetOr(recs[p], "content")
    ELSE d[Max(DetailHitsFor(d, index, p, n))].content

\* a step in which the detail crawl returns and the detail output is applied
DetailApplied == br["detail"].pc = "crawling" /\ br'["detail"].pc = "done"

\* what C35 expects of such a step, d the detail output it read
DetailUpdateAsExpected ==
    LET d == br'["detail"].out
        index == cached_data["weibo"]
        recs == objs["weibo"]
    IN  /\ cached_data' = cached_data
        /\ all_data' = all_data
        /\ \A q \in PlatformSet \ {"weibo"} : objs'[q] = objs[q]
        /\ DOMAIN objs'["weibo"] = DOMAIN recs
        /\ \A p \in DOMAIN recs :
               IF DetailHitsFor(d, index, p, Len(d) + 1) = {}
               THEN objs'["weibo"][p] = recs[p]
               ELSE objs'["weibo"][p] =
                        [recs[p] EXCEPT !.content = ContentBefore(recs, d, index, p, Len(d) + 1)]
        /\ br'["detail"].updated =
               Cardinality({j \in DetailHits(d, index) :
                   d[j].content # ContentBefore(recs, d, index, index[PyStr(d[j].note_id)], j)})

C37_DetailKeepsRelevantIds ==
    (pc = "detail" /\ br["detail"].pc \in {"done", "raised"}) =>
        relevant_ids = cl.local

\* the classifier was called for the record at position i of platform q and the
\* model answered with a JSON object that carries a boolean and a score
ModelAnswered(q, i) ==
    /\ cl.log[q][i].called
    /\ cl.log[q][i].model.kind = "dict"
    /\ cl.log[q][i].model.is_relevant \in {"True", "False"}
    /\ cl.log[q][i].model.score.t = "num"

C38_FanOutRestoresConfig ==
    gather.pc = "returned" =>
        \A f \in ConfigFields \ {"WEIBO_SPECIFIED_ID_LIST"} :
            config[f] = br["weibo"].before[f]

\* C39 (SpecGather): while a branch's crawler is running, PLATFORM, COOKIES and
\* CRAWLER_TYPE hold that branch's own override, also when the other branch
\* runs at the same time.
C39_BranchSeesOwnOverride ==
    \A i \in DOMAIN GatherBranches :
        LET b == GatherBranches[i]
        IN  br[b].pc = "crawling" =>
                \A f \in {"PLATFORM", "COOKIES", "CRAWLER_TYPE"} :
                    config[f] = Override(b, config, keywords)[f]

====
